---- MODULE Spec2Model ----
(***************************************************************************)
(* Rentify: the admin session and login handler, the property REST API,    *)
(* the JsonStore file store, the analytics metrics cache, the contact      *)
(* message API, the lead conversation engine, the rental applications and  *)
(* the email service, as state machines.                                   *)
(* Spec runs the sessions together with the property API; each subsystem   *)
(* also has its own specification (SpecAuth, SpecProp, SpecStore,          *)
(* SpecCache, SpecMsg, SpecConv, SpecApp, SpecMail), in which the          *)
(* variables of the other subsystems stay at their idle value.  SpecFlow   *)
(* is the conversation engine with the message of each call recorded,      *)
(* SpecRace the engine with two calls in flight, SpecRate and SpecLimit    *)
(* the login rate limiter with the times of its rejections recorded.       *)
(***************************************************************************)
EXTENDS Integers, Sequences, FiniteSets, TLC

VARIABLES
  now,            \* Date.now(), in milliseconds
  ticks,          \* number of clock advances so far (bounds the run)
  sessions,       \* session store: client -> [userId, isAdmin]
  attemptObjs,    \* heap of the rate limiter's { count, firstAttempt } objects
  loginAttempts,  \* AuthMiddleware.loginAttempts: ip -> object id (0: no entry)
  logins,         \* login requests waiting at `await bcrypt.compare`
  loggedIn,       \* history: client -> a login succeeded and no logout since
  resp,           \* history: the last HTTP response sent
  propFile,       \* data/properties.json: Missing or the list of properties
  submitted,      \* history: id -> request body of the create that returned it
  storeFile,      \* JsonStore: the file of one store instance
  defaultData,    \* JsonStore: this.defaultData (an array shared by reference)
  ops,            \* JsonStore: the add/update calls in flight or returned
  clock,          \* JsonStore history: number of steps of the store so far
  events,         \* data/analytics.json: number of logged events per channel
  cache,          \* AnalyticsService instance -> [metricsCache, cacheExpiry]
  metricsCalls,   \* getMetrics calls waiting at `await this.store.getAll()`
  metricsLog,     \* history: the last getMetrics return, the last computation
  msgFile,        \* data/messages.json
  leads,          \* data/leads.json
  convs,          \* data/conversations.json
  llmApiKey,      \* env.ai.llmApiKey is set
  seenStates,     \* history: every value a stored conversation state has had
  turn,           \* history: the last processMessage call
  appFile,        \* data/applications.json
  mailConfig,     \* env.email: [apiKey, ownerEmail] are set
  emailLogs,      \* data/email_logs.json
  mailResult,     \* history: how the last EmailService call ended
  procs,          \* processMessage calls in flight, each at one of its awaits
  rejections,     \* history: the times at which a login was answered 401
  attempt,        \* history: the last login request received and its outcome
  received        \* history: the last message given to processMessage

authVars  == <<sessions, attemptObjs, loginAttempts, logins, loggedIn>>
propVars  == <<propFile, submitted>>
storeVars == <<storeFile, defaultData, ops, clock>>
cacheVars == <<events, cache, metricsCalls, metricsLog>>
msgVars   == <<msgFile>>
convVars  == <<leads, convs, llmApiKey, seenStates, turn>>
appVars   == <<appFile>>
mailVars  == <<mailConfig, emailLogs, mailResult>>
raceVars  == <<procs>>
limitVars == <<rejections, attempt>>
flowVars  == <<received>>
moreVars  == <<appVars, mailVars, raceVars, limitVars, flowVars>>
vars == <<now, ticks, resp, authVars, propVars, storeVars, cacheVars, msgVars, convVars,
          moreVars>>

(***************************************************************************)
(* JavaScript values.  A value is a record [t, s, n]: t the type tag, s    *)
(* the characters of a string, n the number (or 0/1 of a boolean).         *)
(***************************************************************************)
Undef == [t |-> "undef", s |-> <<>>, n |-> 0]
Null == [t |-> "null", s |-> <<>>, n |-> 0]
NaNVal == [t |-> "nan", s |-> <<>>, n |-> 0]
Str(chars) == [t |-> "str", s |-> chars, n |-> 0]
Num(k) == [t |-> "num", s |-> <<>>, n |-> k]
Bool(b) == [t |-> "bool", s |-> <<>>, n |-> IF b THEN 1 ELSE 0]

Digits == <<"0", "1", "2", "3", "4", "5", "6", "7", "8", "9">>
IsDigit(c) == \E i \in 1..10 : Digits[i] = c
DigitVal(c) == (CHOOSE i \in 1..10 : Digits[i] = c) - 1
IsSpace(c) == c = " "

\* Truthiness (`if (x)`, `!x`, `x || y`).
Truthy(x) ==
  CASE x.t = "str" -> Len(x.s) > 0
    [] x.t = "num" -> x.n # 0
    [] x.t = "bool" -> x.n = 1
    [] OTHER -> FALSE

RECURSIVE TrimLeft(_)
TrimLeft(chars) ==
  IF chars # <<>> /\ IsSpace(Head(chars)) THEN TrimLeft(Tail(chars)) ELSE chars

RECURSIVE TrimRight(_)
TrimRight(chars) ==
  IF chars # <<>> /\ IsSpace(chars[Len(chars)])
  THEN TrimRight(SubSeq(chars, 1, Len(chars) - 1))
  ELSE chars

\* String.prototype.trim
Trim(chars) == TrimRight(TrimLeft(chars))

RECURSIVE DigitsValue(_, _)
DigitsValue(chars, acc) ==
  IF chars = <<>> THEN acc
  ELSE DigitsValue(Tail(chars), acc * 10 + DigitVal(Head(chars)))

RECURSIVE LeadingDigits(_)
LeadingDigits(chars) ==
  IF chars # <<>> /\ IsDigit(Head(chars))
  THEN <<Head(chars)>> \o LeadingDigits(Tail(chars))
  ELSE <<>>

\* The id no stored record has: what parseInt gives for a non-numeric text.
NaNId == -1

\* parseInt(text): the leading digits of the trimmed text, NaN without any.
ParseInt(chars) ==
  LET d == LeadingDigits(TrimLeft(chars))
  IN IF d = <<>> THEN NaNId ELSE DigitsValue(d, 0)

\* Number(x)
ToNumber(x) ==
  CASE x.t = "num" -> x
    [] x.t = "bool" -> Num(x.n)
    [] x.t = "null" -> Num(0)
    [] x.t = "str" ->
         LET c == Trim(x.s)
         IN IF c = <<>> THEN Num(0)
            ELSE IF \A i \in 1..Len(c) : IsDigit(c[i]) THEN Num(DigitsValue(c, 0))
            ELSE NaNVal
    [] OTHER -> NaNVal

\* Boolean(x)
ToBoolean(x) == Bool(Truthy(x))

\* JSON.parse(JSON.stringify(x)) of a field value: NaN is written as null.
JsonValue(x) == IF x.t = "nan" THEN Null ELSE x

(***************************************************************************)
(* Bounds of the model.                                                    *)
(***************************************************************************)
MaxTicks == 3      \* clock advances per run
MaxLogins == 2     \* login requests in flight at once
MaxCount == 7      \* largest failure count a run may record
MaxId == 2         \* largest property id a run may assign
MaxEvents == 2     \* analytics events a run may log
MaxMessages == 2   \* contact messages a run may store
MaxConvs == 3      \* conversations a run may create
MaxTurns == 5      \* processMessage calls per run
MaxFailAt == 3     \* the last store operation of processWithAI that may throw

(***************************************************************************)
(* Sessions and AuthMiddleware.                                            *)
(***************************************************************************)
SessionIds == {"s1", "s2"}
Ips == {"ip1", "ip2"}
AdminUsername == "admin"
\* bcrypt.compare(password, ADMIN_HASH): the hash is that of "password123".
BcryptCompare(password) == password = "password123"

\* 15 * 60 * 1000
WindowMs == 900000
MaxAttempts == 5
\* The clock advances by a millisecond or by a whole window.
TickSteps == {1, WindowMs}

EmptySession == [userId |-> 0, isAdmin |-> FALSE]
AdminSession == [userId |-> 1, isAdmin |-> TRUE]

\* Request bodies (an absent key is Undef).
Body(title, price, available, featured) ==
  [title |-> title, price |-> price, available |-> available, featured |-> featured]
NoBody == Body(Undef, Undef, Undef, Undef)

NoLogin == [ip |-> "none", username |-> "", password |-> ""]

\* A response: route, client, status, error code, isAuthenticated (status
\* route), the parsed id of the request or the id of the created record,
\* the properties returned (read routes), the body of the request answered,
\* and the address and credentials of the login answered.
Response(route, sid, status, code) ==
  [route |-> route, sid |-> sid, status |-> status, code |-> code,
   auth |-> FALSE, id |-> 0, data |-> <<>>, body |-> NoBody, login |-> NoLogin]
NoResponse == Response("none", "none", 0, "")

\* requireAdmin: 401 without a session user, 403 without the admin flag,
\* 0 when next() is called.
\* (a variant that lets every request through)
RequireAdminOpen(sess) == 0
RequireAdmin(sess) ==
  IF sess.userId = 0 THEN 401
  ELSE IF sess.isAdmin THEN 0
  ELSE 403

\* getCurrentUser(req).id !== 'guest'
\* (a variant that takes `id !== 'guest'` of an absent user for true)
IsAuthenticatedLoose(sess) == sess.userId # 0 \/ ~sess.isAdmin
IsAuthenticated(sess) == sess.userId # 0 /\ sess.isAdmin

ObjIds == 1..(Cardinality(Ips) + MaxLogins)
LoginSlots == 1..MaxLogins
FreeObj == [count |-> 0, firstAttempt |-> 0]
IdleLogin == [sid |-> "none", ip |-> "none", username |-> "", password |-> "", ref |-> 0]

Referenced(map, reqs) ==
  {map[ip] : ip \in Ips} \cup {reqs[k].ref : k \in LoginSlots}

\* Objects no longer referenced are dropped (kept at FreeObj).
Collect(objs, map, reqs) ==
  [o \in ObjIds |-> IF o \in Referenced(map, reqs) THEN objs[o] ELSE FreeObj]

\* (a variant that lets the attempt after the fifth failure through)
RateLimitedLate(obj, t) ==
  obj.count > MaxAttempts /\ (t - obj.firstAttempt) < WindowMs
\* attempts.count >= 5 && (now - attempts.firstAttempt) < 15 * 60 * 1000
RateLimited(obj, t) ==
  obj.count >= MaxAttempts /\ (t - obj.firstAttempt) < WindowMs

\* (a variant that restarts the window and keeps the count)
ResetWindowKeepCount(obj, t) ==
  IF (t - obj.firstAttempt) > WindowMs
  THEN [count |-> obj.count, firstAttempt |-> t]
  ELSE obj
\* if ((now - attempts.firstAttempt) > 15 * 60 * 1000) reset the window
ResetWindow(obj, t) ==
  IF (t - obj.firstAttempt) > WindowMs
  THEN [count |-> 0, firstAttempt |-> t]
  ELSE obj

CredentialsValid(username, password) ==
  username = AdminUsername /\ BcryptCompare(password)

LoginResponse(sid, status, ip, username, password) ==
  [Response("login", sid, status, "") EXCEPT
     !.login = [ip |-> ip, username |-> username, password |-> password]]

\* login, up to `await bcrypt.compare`.
LoginStart(sid, ip, username, password) ==
  LET existing == loginAttempts[ip]
      free == CHOOSE o \in ObjIds :
                /\ o \notin Referenced(loginAttempts, logins)
                /\ \A q \in ObjIds : q \notin Referenced(loginAttempts, logins) => o <= q
      slot == CHOOSE k \in LoginSlots :
                /\ logins[k] = IdleLogin
                /\ \A j \in LoginSlots : logins[j] = IdleLogin => k <= j
      oid == IF existing # 0 THEN existing ELSE free
      obj0 == IF existing # 0 THEN attemptObjs[existing]
              ELSE [count |-> 0, firstAttempt |-> now]
      obj1 == ResetWindow(obj0, now)
  IN /\ \E k \in LoginSlots : logins[k] = IdleLogin
     /\ obj0.count < MaxCount
     /\ IF RateLimited(obj0, now)
        THEN /\ resp' = LoginResponse(sid, 429, ip, username, password)
             /\ UNCHANGED <<attemptObjs, logins>>
        ELSE IF username = "" \/ password = ""
        THEN /\ resp' = LoginResponse(sid, 400, ip, username, password)
             /\ attemptObjs' = IF existing # 0
                               THEN [attemptObjs EXCEPT ![existing] = obj1]
                               ELSE attemptObjs
             /\ UNCHANGED logins
        ELSE /\ resp' = resp
             /\ attemptObjs' = [attemptObjs EXCEPT ![oid] = obj1]
             /\ logins' = [logins EXCEPT ![slot] =
                  [sid |-> sid, ip |-> ip, username |-> username,
                   password |-> password, ref |-> oid]]
     /\ UNCHANGED <<now, ticks, sessions, loginAttempts, loggedIn>>

\* login, after `await bcrypt.compare`.
LoginFinish(k) ==
  LET r == logins[k]
      reqs == [logins EXCEPT ![k] = IdleLogin]
  IN /\ r # IdleLogin
     /\ logins' = reqs
     /\ IF CredentialsValid(r.username, r.password)
        THEN /\ loginAttempts' = [loginAttempts EXCEPT ![r.ip] = 0]
             /\ attemptObjs' = Collect(attemptObjs, loginAttempts', reqs)
             /\ sessions' = [sessions EXCEPT ![r.sid] = AdminSession]
             /\ loggedIn' = [loggedIn EXCEPT ![r.sid] = TRUE]
             /\ resp' = LoginResponse(r.sid, 200, r.ip, r.username, r.password)
        ELSE /\ loginAttempts' = [loginAttempts EXCEPT ![r.ip] = r.ref]
             /\ attemptObjs' = Collect(
                  [attemptObjs EXCEPT ![r.ref].count = @ + 1], loginAttempts', reqs)
             /\ resp' = LoginResponse(r.sid, 401, r.ip, r.username, r.password)
             /\ UNCHANGED <<sessions, loggedIn>>
     /\ UNCHANGED <<now, ticks>>

\* No login awaits its password comparison.
OneLogin == \A k \in LoginSlots : logins[k] = IdleLogin

\* logout: req.session.destroy
Logout(sid) ==
  /\ sessions' = [sessions EXCEPT ![sid] = EmptySession]
  /\ loggedIn' = [loggedIn EXCEPT ![sid] = FALSE]
  /\ resp' = Response("logout", sid, 200, "")
  /\ UNCHANGED <<now, ticks, attemptObjs, loginAttempts, logins>>

\* GET /api/auth/status
GetStatus(sid) ==
  /\ resp' = [Response("status", sid, 200, "") EXCEPT
                !.auth = IsAuthenticated(sessions[sid])]
  /\ UNCHANGED <<now, ticks, authVars>>

\* An admin-only read route (GET /api/application).
AdminRoute(sid) ==
  LET st == RequireAdmin(sessions[sid])
  IN /\ resp' = Response("adminRead", sid, IF st = 0 THEN 200 ELSE st, "")
     /\ UNCHANGED <<now, ticks, authVars>>

Tick ==
  /\ ticks < MaxTicks
  /\ \E d \in TickSteps : now' = now + d
  /\ ticks' = ticks + 1
  /\ UNCHANGED <<resp, authVars>>

AuthInit ==
  /\ now = 1
  /\ ticks = 0
  /\ sessions = [s \in SessionIds |-> EmptySession]
  /\ attemptObjs = [o \in ObjIds |-> FreeObj]
  /\ loginAttempts = [ip \in Ips |-> 0]
  /\ logins = [k \in LoginSlots |-> IdleLogin]
  /\ loggedIn = [s \in SessionIds |-> FALSE]
  /\ resp = NoResponse


(***************************************************************************)
(* Property model, PropertyValidator, PropertyService, PropertyController. *)
(* A property keeps id, title, price, available and featured: location and *)
(* description are sanitised and validated as title is, bedrooms,          *)
(* bathrooms and squareFeet as price is.                                   *)
(***************************************************************************)
MissingFile == [exists |-> FALSE, items |-> <<>>]
File(items) == [exists |-> TRUE, items |-> items]

\* DEFAULT_PROPERTIES (the first of them).
DefaultProperties ==
  << [id |-> 1, title |-> Str(<<"L">>), price |-> Num(1200),
      available |-> Bool(TRUE), featured |-> Bool(TRUE)] >>

\* JsonStore.read of properties.json: a missing file is created with the
\* default data, which is returned.
ReadProperties(file) == IF file.exists THEN file.items ELSE DefaultProperties

BodyTrim == Body(Str(<<" ", "A", " ">>), Num(950), Undef, Undef)
BodyText == Body(Str(<<"B">>), Str(<<"7">>), Bool(FALSE), Bool(TRUE))
BodyBlankTitle == Body(Str(<<" ">>), Num(950), Undef, Undef)
BodyBadPrice == Body(Str(<<"B">>), Num(0 - 5), Undef, Undef)
BodyPartial == Body(Undef, Undef, Bool(FALSE), Undef)
Bodies == {BodyTrim, BodyText, BodyBlankTitle, BodyBadPrice, BodyPartial}

\* The :id path parameter, as text.
IdParams == {<<"1">>, <<"2">>, <<"3">>, <<"9">>, <<"x">>, <<"2", "x">>}

\* PropertyValidator.sanitizeInput
\* (a variant that keeps the title as sent)
SanitizeInputNoTrim(data) ==
  [title |-> data.title,
   price |-> IF data.price.t # "undef" THEN ToNumber(data.price) ELSE Undef,
   available |-> IF data.available.t # "undef" THEN ToBoolean(data.available) ELSE Undef,
   featured |-> IF data.featured.t # "undef" THEN ToBoolean(data.featured) ELSE Undef]
SanitizeInput(data) ==
  [title |-> IF Truthy(data.title) THEN Str(Trim(data.title.s)) ELSE data.title,
   price |-> IF data.price.t # "undef" THEN ToNumber(data.price) ELSE Undef,
   available |-> IF data.available.t # "undef" THEN ToBoolean(data.available) ELSE Undef,
   featured |-> IF data.featured.t # "undef" THEN ToBoolean(data.featured) ELSE Undef]

\* new Property(data)
NewProperty(id, data) ==
  [id |-> id, title |-> data.title, price |-> data.price,
   available |-> IF data.available.t # "undef" THEN data.available ELSE Bool(TRUE),
   featured |-> IF Truthy(data.featured) THEN data.featured ELSE Bool(FALSE)]

\* Property.validate: the list of error messages.
Validate(p) ==
  (IF ~Truthy(p.title) \/ Len(Trim(p.title.s)) = 0
   THEN <<"Title is required">> ELSE <<>>)
  \o (IF ~Truthy(p.price) \/ p.price.n <= 0
      THEN <<"Valid price is required">> ELSE <<>>)

\* PropertyValidator.validateCreate
ValidateCreate(data) == Validate(NewProperty(0, data))

\* The messages validateUpdate removes from the list.
RequiredFieldErrors ==
  {"Title is required", "Valid price is required", "Location is required",
   "Valid number of bedrooms is required", "Valid number of bathrooms is required",
   "Valid square footage is required"}

\* PropertyValidator.validateUpdate
ValidateUpdate(data) ==
  SelectSeq(Validate(NewProperty(0, data)), LAMBDA e : e \notin RequiredFieldErrors)

\* error.message.includes('Validation failed'), error.message being
\* JSON.stringify(validation.errors): true only if an error message holds it.
IncludesValidationFailed(errors) ==
  \E i \in DOMAIN errors : errors[i] = "Validation failed"

\* Property.toJSON written to the file and parsed back.
ToJson(p) ==
  [id |-> p.id, title |-> JsonValue(p.title), price |-> JsonValue(p.price),
   available |-> JsonValue(p.available), featured |-> JsonValue(p.featured)]

Ids(items) == {items[i].id : i \in DOMAIN items}

\* (a variant that takes the first record when none has the id)
FindIndexOrFirst(items, id) ==
  IF \E i \in DOMAIN items : items[i].id = id
  THEN CHOOSE i \in DOMAIN items :
         items[i].id = id /\ \A j \in DOMAIN items : items[j].id = id => i <= j
  ELSE 1

\* properties.findIndex(p => p.id === id): 0 when there is none.
FindIndex(items, id) ==
  IF \E i \in DOMAIN items : items[i].id = id
  THEN CHOOSE i \in DOMAIN items :
         items[i].id = id /\ \A j \in DOMAIN items : items[j].id = id => i <= j
  ELSE 0

MaxOf(S) == CHOOSE m \in S : \A x \in S : x <= m

\* properties.length > 0 ? Math.max(...ids) + 1 : 1
NewId(items) == IF Len(items) > 0 THEN MaxOf(Ids(items)) + 1 ELSE 1

\* { ...existingProperty, ...sanitizedData, id: existingProperty.id }
Merge(existing, data) ==
  [id |-> existing.id,
   title |-> IF data.title.t # "undef" THEN data.title ELSE existing.title,
   price |-> IF data.price.t # "undef" THEN data.price ELSE existing.price,
   available |-> IF data.available.t # "undef" THEN data.available ELSE existing.available,
   featured |-> IF data.featured.t # "undef" THEN data.featured ELSE existing.featured]

RemoveAt(items, i) == SubSeq(items, 1, i - 1) \o SubSeq(items, i + 1, Len(items))

\* History of an id: the body of the create that returned it, until an
\* update or a delete of the id; whether a toggle-availability or a
\* set-featured has changed it since.
Untracked == [tracked |-> FALSE, body |-> NoBody, patched |-> FALSE]
Forget(id) ==
  IF id \in DOMAIN submitted THEN [submitted EXCEPT ![id] = Untracked] ELSE submitted
Patch(id) ==
  IF id \in DOMAIN submitted /\ submitted[id].tracked
  THEN [submitted EXCEPT ![id].patched = TRUE] ELSE submitted

\* The controllers answer through this: the response and the new file.
Answer(route, sid, id, body, status, code, file) ==
  /\ resp' = [Response(route, sid, status, code) EXCEPT !.id = id, !.body = body]
  /\ propFile' = file

\* The read routes answer through this.
AnswerData(route, sid, id, data, file) ==
  /\ resp' = [Response(route, sid, 200, "") EXCEPT !.id = id, !.data = data]
  /\ propFile' = file

\* _getAllProperties, then toJSON of each property returned.
Returned(items) == [i \in DOMAIN items |-> ToJson(NewProperty(items[i].id, items[i]))]

\* The `available` query parameter: absent, or its text.
AvailableFilters == {Undef, Str(<<"t", "r", "u", "e">>), Str(<<"0">>)}

\* String(filters.available) === 'true'
IsTrueText(x) == x.t = "str" /\ x.s = <<"t", "r", "u", "e">>

\* GET /api/properties (public): the listing, filtered by `available`.
PropGetAll(sid, available) ==
  LET items == ReadProperties(propFile)
      all == Returned(items)
      listed == IF available.t = "undef" THEN all
                ELSE SelectSeq(all, LAMBDA q : q.available = Bool(IsTrueText(available)))
  IN /\ AnswerData(IF available.t = "undef" THEN "getAll" ELSE "getAllFiltered",
                   sid, 0, listed, File(items))
     /\ UNCHANGED <<now, ticks, authVars, submitted>>

\* GET /api/properties/:id (public)
PropGetById(sid, idText) ==
  LET id == ParseInt(idText)
      items == ReadProperties(propFile)
      i == FindIndex(items, id)
  IN /\ IF i = 0
        THEN Answer("getById", sid, id, NoBody, 404, "NOT_FOUND", File(items))
        ELSE AnswerData("getById", sid, id, <<Returned(items)[i]>>, File(items))
     /\ UNCHANGED <<now, ticks, authVars, submitted>>

\* POST /api/properties (admin)
PropCreate(sid, body) ==
  LET st == RequireAdmin(sessions[sid])
      data == SanitizeInput(body)
      errors == ValidateCreate(data)
      items == ReadProperties(propFile)
      newId == NewId(items)
      created == ToJson(NewProperty(newId, data))
  IN /\ IF st # 0
        THEN /\ Answer("create", sid, 0, body, st, "", propFile)
             /\ UNCHANGED submitted
        ELSE IF errors # <<>>
        THEN /\ IF IncludesValidationFailed(errors)
                THEN Answer("create", sid, 0, body, 400, "VALIDATION_ERROR", propFile)
                ELSE Answer("create", sid, 0, body, 500, "INTERNAL_ERROR", propFile)
             /\ UNCHANGED submitted
        ELSE /\ newId <= MaxId
             /\ Answer("create", sid, newId, body, 201, "", File(Append(items, created)))
             /\ submitted' = [submitted EXCEPT ![newId] =
                               [tracked |-> TRUE, body |-> body, patched |-> FALSE]]
     /\ UNCHANGED <<now, ticks, authVars>>

\* PUT /api/properties/:id (admin)
PropUpdate(sid, idText, body) ==
  LET st == RequireAdmin(sessions[sid])
      id == ParseInt(idText)
      items == ReadProperties(propFile)
      i == FindIndex(items, id)
      data == SanitizeInput(body)
      errors == ValidateUpdate(data)
      updated == ToJson(NewProperty(id, Merge(items[i], data)))
  IN /\ IF st # 0
        THEN /\ Answer("update", sid, id, body, st, "", propFile)
             /\ UNCHANGED submitted
        ELSE IF i = 0
        THEN /\ Answer("update", sid, id, body, 404, "NOT_FOUND", File(items))
             /\ UNCHANGED submitted
        ELSE IF errors # <<>>
        THEN /\ IF IncludesValidationFailed(errors)
                THEN Answer("update", sid, id, body, 400, "VALIDATION_ERROR", File(items))
                ELSE Answer("update", sid, id, body, 500, "INTERNAL_ERROR", File(items))
             /\ UNCHANGED submitted
        ELSE /\ Answer("update", sid, id, body, 200, "", File([items EXCEPT ![i] = updated]))
             /\ submitted' = Forget(id)
     /\ UNCHANGED <<now, ticks, authVars>>

\* DELETE /api/properties/:id (admin)
PropDelete(sid, idText) ==
  LET st == RequireAdmin(sessions[sid])
      id == ParseInt(idText)
      items == ReadProperties(propFile)
      i == FindIndex(items, id)
  IN /\ IF st # 0
        THEN /\ Answer("delete", sid, id, NoBody, st, "", propFile)
             /\ UNCHANGED submitted
        ELSE IF i = 0
        THEN /\ Answer("delete", sid, id, NoBody, 404, "NOT_FOUND", File(items))
             /\ UNCHANGED submitted
        ELSE /\ Answer("delete", sid, id, NoBody, 200, "", File(RemoveAt(items, i)))
             /\ submitted' = Forget(id)
     /\ UNCHANGED <<now, ticks, authVars>>

\* PATCH /api/properties/:id/toggle-availability (admin)
PropToggle(sid, idText) ==
  LET st == RequireAdmin(sessions[sid])
      id == ParseInt(idText)
      items == ReadProperties(propFile)
      i == FindIndex(items, id)
      toggled == ToJson([items[i] EXCEPT !.available = Bool(~Truthy(@))])
  IN /\ IF st # 0
        THEN /\ Answer("toggle", sid, id, NoBody, st, "", propFile)
             /\ UNCHANGED submitted
        ELSE IF i = 0
        THEN /\ Answer("toggle", sid, id, NoBody, 404, "NOT_FOUND", File(items))
             /\ UNCHANGED submitted
        ELSE /\ Answer("toggle", sid, id, NoBody, 200, "", File([items EXCEPT ![i] = toggled]))
             /\ submitted' = Patch(id)
     /\ UNCHANGED <<now, ticks, authVars>>

\* PATCH /api/properties/:id/set-featured (admin)
PropSetFeatured(sid, idText, featured) ==
  LET st == RequireAdmin(sessions[sid])
      id == ParseInt(idText)
      items == ReadProperties(propFile)
      i == FindIndex(items, id)
      value == IF featured.t # "undef" THEN featured ELSE Bool(TRUE)
      changed == ToJson([items[i] EXCEPT !.featured = value])
  IN /\ IF st # 0
        THEN /\ Answer("setFeatured", sid, id, NoBody, st, "", propFile)
             /\ UNCHANGED submitted
        ELSE IF i = 0
        THEN /\ Answer("setFeatured", sid, id, NoBody, 404, "NOT_FOUND", File(items))
             /\ UNCHANGED submitted
        ELSE /\ Answer("setFeatured", sid, id, NoBody, 200, "", File([items EXCEPT ![i] = changed]))
             /\ submitted' = Patch(id)
     /\ UNCHANGED <<now, ticks, authVars>>

PropInit ==
  /\ propFile = MissingFile
  /\ submitted = [id \in 1..MaxId |-> Untracked]


(***************************************************************************)
(* JsonStore: add and update, step by step.  An item is [id, a, b]; the    *)
(* updates of an update call are a record over some of the fields.         *)
(***************************************************************************)
Slots == {1, 2}
StoreDefault == << [id |-> 1, a |-> 0, b |-> 0] >>

\* The calls the two callers make.
Calls(k) ==
  IF k = 1
  THEN {[kind |-> "add", id |-> 2, data |-> [id |-> 2, a |-> 0, b |-> 0]],
        [kind |-> "update", id |-> 1, data |-> [a |-> 7]],
        [kind |-> "update", id |-> 9, data |-> [a |-> 7]]}
  ELSE {[kind |-> "add", id |-> 3, data |-> [id |-> 3, a |-> 0, b |-> 0]],
        [kind |-> "update", id |-> 1, data |-> [b |-> 8]]}

NoCall == [kind |-> "none", id |-> 0, data |-> [a |-> 0]]
IdleOp ==
  [pc |-> "idle", call |-> NoCall, items |-> <<>>, shared |-> FALSE,
   pending |-> <<>>, startAt |-> 0, readAt |-> 0, foundFile |-> FALSE,
   wrote |-> FALSE, doneAt |-> 0]

\* { ...item, ...updates }
\* (a variant that drops the updates)
SpreadUnchanged(item, updates) == item
Spread(item, updates) ==
  [f \in DOMAIN item |-> IF f \in DOMAIN updates THEN updates[f] ELSE item[f]]

\* items.findIndex(item => item.id === id): 0 when there is none.
StoreFindIndex(items, id) ==
  IF \E i \in DOMAIN items : items[i].id = id
  THEN CHOOSE i \in DOMAIN items :
         items[i].id = id /\ \A j \in DOMAIN items : items[j].id = id => i <= j
  ELSE 0

\* What add and update do to the array read() returned.
Change(items, call) ==
  IF call.kind = "add" THEN Append(items, call.data)
  ELSE [items EXCEPT ![StoreFindIndex(items, call.id)] = Spread(@, call.data)]

\* update returns null, writing nothing, when no item has the id.
Found(items, call) == call.kind = "add" \/ StoreFindIndex(items, call.id) # 0

Step == clock' = clock + 1

\* getAll() by an earlier caller, completed before the two calls start:
\* read() creates a missing file with the default data.
GetAll ==
  /\ \A k \in Slots : ops[k].pc = "idle"
  /\ ~storeFile.exists
  /\ storeFile' = File(defaultData)
  /\ Step
  /\ UNCHANGED <<defaultData, ops>>

\* add(item) or update(id, updates) is called: read() calls fs.readFile.
Call(k, call) ==
  /\ ops[k].pc = "idle"
  /\ ops' = [ops EXCEPT ![k] = [IdleOp EXCEPT !.pc = "readFile", !.call = call,
                                              !.startAt = clock + 1]]
  /\ Step
  /\ UNCHANGED <<storeFile, defaultData>>

\* fs.readFile completes.  With the file there, read() returns the parsed
\* content, add/update change it and write() calls fs.mkdir; without it,
\* read() calls write(this.defaultData).
ReadFile(k) ==
  LET op == ops[k]
      items == storeFile.items
  IN /\ op.pc = "readFile"
     /\ ops' = [ops EXCEPT ![k] =
          IF ~storeFile.exists
          THEN [op EXCEPT !.pc = "defaultMkdir", !.readAt = clock + 1]
          ELSE IF Found(items, op.call)
          THEN [op EXCEPT !.pc = "mkdir", !.readAt = clock + 1, !.foundFile = TRUE,
                          !.items = Change(items, op.call)]
          ELSE [op EXCEPT !.pc = "done", !.readAt = clock + 1, !.foundFile = TRUE,
                          !.doneAt = clock + 1]]
     /\ Step
     /\ UNCHANGED <<storeFile, defaultData>>

\* write(this.defaultData): fs.mkdir completes, fs.writeFile is called with
\* JSON.stringify of the default data as it is now.
DefaultMkdir(k) ==
  /\ ops[k].pc = "defaultMkdir"
  /\ ops' = [ops EXCEPT ![k].pc = "defaultWriteFile", ![k].pending = defaultData]
  /\ Step
  /\ UNCHANGED <<storeFile, defaultData>>

\* write(this.defaultData) completes: read() returns this.defaultData
\* itself, which add/update change in place before calling write().
DefaultWriteFile(k) ==
  LET op == ops[k]
  IN /\ op.pc = "defaultWriteFile"
     /\ storeFile' = File(op.pending)
     /\ IF Found(defaultData, op.call)
        THEN /\ defaultData' = Change(defaultData, op.call)
             /\ ops' = [ops EXCEPT ![k].pc = "mkdir", ![k].shared = TRUE]
        ELSE /\ defaultData' = defaultData
             /\ ops' = [ops EXCEPT ![k].pc = "done", ![k].shared = TRUE,
                                   ![k].doneAt = clock + 1]
     /\ Step

\* write(items): fs.mkdir completes, fs.writeFile is called with
\* JSON.stringify(items).
Mkdir(k) ==
  LET op == ops[k]
  IN /\ op.pc = "mkdir"
     /\ ops' = [ops EXCEPT ![k].pc = "writeFile",
                           ![k].pending = IF op.shared THEN defaultData ELSE op.items]
     /\ Step
     /\ UNCHANGED <<storeFile, defaultData>>

\* fs.writeFile completes and add/update return.
WriteFile(k) ==
  LET op == ops[k]
  IN /\ op.pc = "writeFile"
     /\ storeFile' = File(op.pending)
     /\ ops' = [ops EXCEPT ![k].pc = "done", ![k].wrote = TRUE, ![k].doneAt = clock + 1]
     /\ Step
     /\ UNCHANGED defaultData

StoreInit ==
  /\ storeFile = MissingFile
  /\ defaultData = StoreDefault
  /\ ops = [k \in Slots |-> IdleOp]
  /\ clock = 0

NotStore == <<now, ticks, resp, authVars, propVars, cacheVars, msgVars, convVars, moreVars>>

NextStore ==
  \/ GetAll /\ UNCHANGED NotStore
  \/ \E k \in Slots : \E c \in Calls(k) : Call(k, c) /\ UNCHANGED NotStore
  \/ \E k \in Slots : ReadFile(k) /\ UNCHANGED NotStore
  \/ \E k \in Slots : DefaultMkdir(k) /\ UNCHANGED NotStore
  \/ \E k \in Slots : DefaultWriteFile(k) /\ UNCHANGED NotStore
  \/ \E k \in Slots : Mkdir(k) /\ UNCHANGED NotStore
  \/ \E k \in Slots : WriteFile(k) /\ UNCHANGED NotStore

(***************************************************************************)
(* AnalyticsService: getMetrics, logEvent and the metrics cache.           *)
(***************************************************************************)
\* The instance of the analytics routes and that of ConversationService.
Instances == {"routes", "conversation"}
Channels == {"sms", "whatsapp"}
\* options.channel of a getMetrics call ("": no filter).
ChannelFilters == {"", "sms"}

\* 5 * 60 * 1000
CacheTTL == 300000
CacheTickSteps == {1, CacheTTL - 1}

NoMetrics == [total |-> 0 - 1]
\* this.metricsCache = null; this.cacheExpiry = null
NullCache == [isSet |-> FALSE, metricsCache |-> NoMetrics, cacheExpiry |-> 0]

\* this.metricsCache && this.cacheExpiry > Date.now()
\* (a variant that still hits at the expiry time)
CacheHitLate(c, t) == c.isSet /\ c.cacheExpiry >= t
CacheHit(c, t) == c.isSet /\ c.cacheExpiry > t

\* The metrics of the filtered events.
Metrics(evts, channel) ==
  [total |-> IF channel = "" THEN evts["sms"] + evts["whatsapp"] ELSE evts[channel]]

NoMetricsCall ==
  [waiting |-> FALSE, channel |-> "", expected |-> FALSE, age |-> 0 - 1, logged |-> FALSE]
\* History: a result was computed on the instance less than the time to
\* live ago, with no logEvent on the instance since.
Fresh(i) ==
  LET h == metricsLog.computed[i]
  IN h.at >= 0 /\ now - h.at < CacheTTL /\ ~h.logged

NoReturn ==
  [inst |-> "none", hit |-> FALSE, result |-> NoMetrics, reads |-> FALSE,
   expected |-> FALSE, age |-> 0 - 1, logged |-> FALSE, remembered |-> NoMetrics]
\* A getMetrics call: the channel filter and, for the history, what was known
\* of the instance's last computation when the call was made.
MetricsCall(i, channel) ==
  LET h == metricsLog.computed[i]
  IN [waiting |-> TRUE, channel |-> channel, expected |-> Fresh(i),
      age |-> IF h.at >= 0 THEN now - h.at ELSE 0 - 1, logged |-> h.logged]
NoComputation == [at |-> 0 - 1, result |-> NoMetrics, logged |-> FALSE]

\* getMetrics(options), up to the cache check and `await this.store.getAll()`.
GetMetricsCall(i, channel) ==
  /\ ~metricsCalls[i].waiting
  /\ IF CacheHit(cache[i], now)
     THEN /\ metricsLog' = [metricsLog EXCEPT !.last =
               [inst |-> i, hit |-> TRUE, result |-> cache[i].metricsCache,
                reads |-> FALSE, expected |-> Fresh(i),
                age |-> MetricsCall(i, channel).age,
                logged |-> metricsLog.computed[i].logged,
                remembered |-> metricsLog.computed[i].result]]
          /\ UNCHANGED metricsCalls
     ELSE /\ metricsCalls' = [metricsCalls EXCEPT ![i] = MetricsCall(i, channel)]
          /\ UNCHANGED metricsLog
  /\ UNCHANGED <<now, ticks, events, cache>>

\* getMetrics, after `await this.store.getAll()`.
GetMetricsRead(i) ==
  LET c == metricsCalls[i]
      metrics == Metrics(events, c.channel)
  IN /\ c.waiting
     /\ metricsCalls' = [metricsCalls EXCEPT ![i] = NoMetricsCall]
     /\ cache' = [cache EXCEPT ![i] =
          [isSet |-> TRUE, metricsCache |-> metrics, cacheExpiry |-> now + CacheTTL]]
     /\ metricsLog' =
          [last |-> [inst |-> i, hit |-> FALSE, result |-> metrics,
                     reads |-> TRUE, expected |-> c.expected,
                     age |-> c.age, logged |-> c.logged, remembered |-> NoMetrics],
           computed |-> [metricsLog.computed EXCEPT ![i] =
                     [at |-> now, result |-> metrics, logged |-> FALSE]]]
     /\ UNCHANGED <<now, ticks, events>>

\* logEvent: store.add completes and the cache is invalidated.
LogEvent(i, channel) ==
  /\ events["sms"] + events["whatsapp"] < MaxEvents
  /\ events' = [events EXCEPT ![channel] = @ + 1]
  /\ cache' = [cache EXCEPT ![i] = NullCache]
  /\ metricsLog' = [metricsLog EXCEPT !.computed[i].logged = TRUE]
  /\ UNCHANGED <<now, ticks, metricsCalls>>

CacheTick ==
  /\ ticks < MaxTicks
  /\ \E d \in CacheTickSteps : now' = now + d
  /\ ticks' = ticks + 1
  /\ UNCHANGED cacheVars

CacheInit ==
  /\ events = [c \in Channels |-> 0]
  /\ cache = [i \in Instances |-> NullCache]
  /\ metricsCalls = [i \in Instances |-> NoMetricsCall]
  /\ metricsLog = [last |-> NoReturn, computed |-> [i \in Instances |-> NoComputation]]

NotCache == <<resp, authVars, propVars, storeVars, msgVars, convVars, moreVars>>

NextCache ==
  \/ \E c \in ChannelFilters : GetMetricsCall("routes", c) /\ UNCHANGED NotCache
  \/ \E i \in Instances : GetMetricsRead(i) /\ UNCHANGED NotCache
  \/ \E i \in Instances, c \in Channels : LogEvent(i, c) /\ UNCHANGED NotCache
  \/ CacheTick /\ UNCHANGED NotCache

(***************************************************************************)
(* Contact messages: messageRoutes and MessageService.                     *)
(***************************************************************************)
Names == {Undef, Str(<<"N">>)}
Emails ==
  {Undef,
   Str(<<"a", "@", "b", ".", "c">>), Str(<<"a", "@", "b", ".", "c", ".", "d">>),
   Str(<<"a", "@", "b">>), Str(<<"a", "b", ".", "c">>), Str(<<"@", "b", ".", "c">>),
   Str(<<"a", " ", "@", "b", ".", "c">>), Str(<<"a", "@", "@", "b", ".", "c">>),
   Str(<<"a", "@", "b", ".">>), Str(<<"a", "@", ".", "c">>)}
Texts == {Undef, Str(<<>>), Str(<<"m">>)}
MessageIdParams == {<<"1">>, <<"2">>, <<"7">>}
StatusValues == {"unread", "read", "replied", "archived", "spam"}

\* [^\s@]
Plain(c) == c # " " /\ c # "@"

\* /^[^\s@]+@[^\s@]+\.[^\s@]+$/.test(text)
EmailRegexTest(chars) ==
  \E i \in 2..Len(chars) : \E k \in (i + 2)..(Len(chars) - 1) :
    /\ chars[i] = "@"
    /\ chars[k] = "."
    /\ \A j \in 1..(i - 1) : Plain(chars[j])
    /\ \A j \in (i + 1)..Len(chars) : Plain(chars[j])

ValidStatuses == {"unread", "read", "replied", "archived"}

\* JsonStore.read of messages.json (default data: []).
ReadMessages(file) == IF file.exists THEN file.items ELSE <<>>

\* messages.length > 0 ? Math.max(...ids) + 1 : 1
\* (a variant that forgets the `+ 1`)
NextMessageIdMax(items) == IF Len(items) > 0 THEN MaxOf(Ids(items)) ELSE 1
NextMessageId(items) == IF Len(items) > 0 THEN MaxOf(Ids(items)) + 1 ELSE 1

\* MessageService.create: { ...messageData, id: newId, status: 'unread' }
NewMessage(items, body) ==
  [id |-> NextMessageId(items), status |-> "unread", email |-> body.email.s]

\* POST /api/message (public)
SubmitMessage(body) ==
  LET items == ReadMessages(msgFile)
      created == NewMessage(items, body)
      Reply(status, code, file) ==
        /\ resp' = [Response("submit", "none", status, code) EXCEPT
                      !.id = IF status = 201 THEN created.id ELSE 0,
                      !.body = body]
        /\ msgFile' = file
  IN /\ IF ~Truthy(body.name) \/ ~Truthy(body.email) \/ ~Truthy(body.message)
        THEN Reply(400, "VALIDATION_ERROR", msgFile)
        ELSE IF ~EmailRegexTest(body.email.s)
        THEN Reply(400, "VALIDATION_ERROR", msgFile)
        ELSE /\ created.id <= MaxMessages
             /\ Reply(201, "", File(Append(items, created)))
     /\ UNCHANGED <<now, ticks, authVars>>

\* PATCH /api/message/:id/status (admin)
MessageUpdateStatus(sid, idText, status) ==
  LET st == RequireAdmin(sessions[sid])
      id == ParseInt(idText)
      items == ReadMessages(msgFile)
      i == FindIndex(items, id)
      Reply(code, errorCode, file) ==
        /\ resp' = [Response("messageStatus", sid, code, errorCode) EXCEPT !.id = id]
        /\ msgFile' = file
  IN /\ IF st # 0 THEN Reply(st, "", msgFile)
        ELSE IF status \notin ValidStatuses THEN Reply(400, "VALIDATION_ERROR", msgFile)
        ELSE IF i = 0 THEN Reply(404, "NOT_FOUND", File(items))
        ELSE Reply(200, "", File([items EXCEPT ![i].status = status]))
     /\ UNCHANGED <<now, ticks, authVars>>

\* POST /api/message/:id/reply (admin)
MessageReply(sid, idText, replyMessage) ==
  LET st == RequireAdmin(sessions[sid])
      id == ParseInt(idText)
      items == ReadMessages(msgFile)
      i == FindIndex(items, id)
      Reply(code, errorCode, file) ==
        /\ resp' = [Response("messageReply", sid, code, errorCode) EXCEPT !.id = id]
        /\ msgFile' = file
  IN /\ IF st # 0 THEN Reply(st, "", msgFile)
        ELSE IF ~Truthy(replyMessage) THEN Reply(400, "VALIDATION_ERROR", msgFile)
        ELSE IF i = 0 THEN Reply(404, "NOT_FOUND", File(items))
        ELSE Reply(200, "", File([items EXCEPT ![i].status = "replied"]))
     /\ UNCHANGED <<now, ticks, authVars>>

MsgInit == msgFile = MissingFile

NotMsg == <<propVars, storeVars, cacheVars, convVars, moreVars>>

NextMsg ==
  \/ /\ \A k \in LoginSlots : logins[k] = IdleLogin
     /\ ~loggedIn["s1"]
     /\ LoginStart("s1", "ip1", "admin", "password123")
     /\ UNCHANGED <<msgVars, NotMsg>>
  \/ \E k \in LoginSlots : LoginFinish(k) /\ UNCHANGED <<msgVars, NotMsg>>
  \/ \E n \in Names, e \in Emails, m \in Texts :
       SubmitMessage([name |-> n, email |-> e, message |-> m]) /\ UNCHANGED NotMsg
  \/ \E t \in MessageIdParams, st \in StatusValues :
       MessageUpdateStatus("s1", t, st) /\ UNCHANGED NotMsg
  \/ \E t \in MessageIdParams, m \in Texts :
       MessageReply("s1", t, m) /\ UNCHANGED NotMsg

(***************************************************************************)
(* The conversation engine: text matching.  A message is its sequence of   *)
(* characters; the messages of the model are in lower case but for a       *)
(* leading R.                                                              *)
(***************************************************************************)
\* String.prototype.toLowerCase
ToLowerCase(chars) == [i \in DOMAIN chars |-> IF chars[i] = "R" THEN "r" ELSE chars[i]]

\* String.prototype.includes
Includes(chars, part) ==
  \E i \in 1..(Len(chars) - Len(part) + 1) : SubSeq(chars, i, i + Len(part) - 1) = part
IncludesAny(chars, parts) == \E part \in parts : Includes(chars, part)

HANDOFF_TRIGGERS ==
  {<<"h", "u", "m", "a", "n">>, <<"a", "g", "e", "n", "t">>,
   <<"p", "e", "r", "s", "o", "n">>,
   <<"s", "p", "e", "a", "k", " ", "t", "o", " ", "s", "o", "m", "e", "o", "n", "e">>,
   <<"c", "a", "l", "l", " ", "m", "e">>,
   <<"c", "o", "m", "p", "l", "a", "i", "n", "t">>,
   <<"p", "r", "o", "b", "l", "e", "m">>, <<"i", "s", "s", "u", "e">>,
   <<"a", "n", "g", "r", "y">>,
   <<"f", "r", "u", "s", "t", "r", "a", "t", "e", "d">>,
   <<"l", "e", "g", "a", "l">>, <<"l", "a", "w", "y", "e", "r">>,
   <<"c", "o", "u", "r", "t">>, <<"s", "u", "e">>}

\* (a variant that does not know the trigger 'human')
ShouldHandoffDeaf(message) ==
  IncludesAny(ToLowerCase(message), HANDOFF_TRIGGERS \ {<<"h", "u", "m", "a", "n">>})
\* shouldHandoff(message)
ShouldHandoff(message) == IncludesAny(ToLowerCase(message), HANDOFF_TRIGGERS)

FORBIDDEN_TOPICS ==
  {<<"p", "r", "i", "c", "e", " ", "n", "e", "g", "o", "t", "i", "a", "t", "i", "o", "n">>,
   <<"d", "i", "s", "c", "o", "u", "n", "t">>,
   <<"r", "e", "d", "u", "c", "e", " ", "r", "e", "n", "t">>,
   <<"l", "o", "w", "e", "r", " ", "p", "r", "i", "c", "e">>,
   <<"l", "e", "g", "a", "l", " ", "a", "d", "v", "i", "c", "e">>,
   <<"e", "v", "i", "c", "t", "i", "o", "n", " ", "r", "i", "g", "h", "t", "s">>,
   <<"s", "u", "e">>, <<"l", "a", "w", "y", "e", "r">>,
   <<"c", "o", "u", "r", "t">>,
   <<"d", "i", "s", "c", "r", "i", "m", "i", "n", "a", "t", "i", "o", "n">>}

\* containsForbiddenTopic(message)
ContainsForbiddenTopic(message) == IncludesAny(ToLowerCase(message), FORBIDDEN_TOPICS)

\* /human|agent|person|help|speak|call me/i
FallbackHandoffWords ==
  {<<"h", "u", "m", "a", "n">>, <<"a", "g", "e", "n", "t">>,
   <<"p", "e", "r", "s", "o", "n">>, <<"h", "e", "l", "p">>,
   <<"s", "p", "e", "a", "k">>, <<"c", "a", "l", "l", " ", "m", "e">>}

\* The first run of digits, commas and spaces of the text, without the
\* commas and spaces: match[1].replace(/[,\s]/g, '') of /[Rr]?\s*(\d[\d,\s]*)/.
RECURSIVE DigitRun(_)
DigitRun(chars) ==
  IF chars = <<>> THEN <<>>
  ELSE IF IsDigit(Head(chars)) THEN <<Head(chars)>> \o DigitRun(Tail(chars))
  ELSE IF Head(chars) = "," \/ IsSpace(Head(chars)) THEN DigitRun(Tail(chars))
  ELSE <<>>
RECURSIVE FromFirstDigit(_)
FromFirstDigit(chars) ==
  IF chars = <<>> \/ IsDigit(Head(chars)) THEN chars ELSE FromFirstDigit(Tail(chars))

\* amount >= 1000 && amount <= 100000
MinBudget == 1000
MaxBudget == 100000
InBudgetRange(digits) ==
  digits # <<>> /\ DigitsValue(digits, 0) >= MinBudget /\ DigitsValue(digits, 0) <= MaxBudget

\* extractBudget(message) is not null.
ExtractBudget(message) == InBudgetRange(DigitRun(FromFirstDigit(message)))

\* (\d{1,3}(?:[,\s]?\d{3})*) at the first digit: up to three digits, then
\* groups of an optional comma or space and exactly three digits.
RECURSIVE Thousands(_)
Thousands(chars) ==
  LET rest == IF chars # <<>> /\ (Head(chars) = "," \/ IsSpace(Head(chars)))
              THEN Tail(chars) ELSE chars
  IN IF Len(rest) >= 3 /\ \A i \in 1..3 : IsDigit(rest[i])
     THEN SubSeq(rest, 1, 3) \o Thousands(SubSeq(rest, 4, Len(rest)))
     ELSE <<>>
GroupedDigits(chars) ==
  LET lead == LeadingDigits(chars)
      n == IF Len(lead) > 3 THEN 3 ELSE Len(lead)
  IN SubSeq(chars, 1, n) \o Thousands(SubSeq(chars, n + 1, Len(chars)))

\* generateFallbackResponse, state GREETING: a budget is extracted.
FallbackBudget(message) ==
  InBudgetRange(GroupedDigits(FromFirstDigit(ToLowerCase(message))))

\* message.replace(/(?:in|at|near|around|looking for|area|suburb|city|town)/gi, '')
LocationNoise ==
  {<<"i", "n">>, <<"a", "t">>, <<"n", "e", "a", "r">>,
   <<"a", "r", "o", "u", "n", "d">>,
   <<"l", "o", "o", "k", "i", "n", "g", " ", "f", "o", "r">>,
   <<"a", "r", "e", "a">>, <<"s", "u", "b", "u", "r", "b">>,
   <<"c", "i", "t", "y">>, <<"t", "o", "w", "n">>}
RECURSIVE RemoveNoise(_)
RemoveNoise(chars) ==
  IF chars = <<>> THEN <<>>
  ELSE IF \E w \in LocationNoise : Len(w) <= Len(chars) /\ SubSeq(chars, 1, Len(w)) = w
  THEN LET w == CHOOSE w \in LocationNoise :
                  Len(w) <= Len(chars) /\ SubSeq(chars, 1, Len(w)) = w
       IN RemoveNoise(SubSeq(chars, Len(w) + 1, Len(chars)))
  ELSE <<Head(chars)>> \o RemoveNoise(Tail(chars))

\* extractLocation(message) is not null.
ExtractLocation(message) ==
  LET cleaned == Trim(RemoveNoise(ToLowerCase(message)))
  IN Len(cleaned) >= 3 /\ Len(cleaned) <= 50

MoveInWords ==
  {<<"a", "s", "a", "p">>,
   <<"i", "m", "m", "e", "d", "i", "a", "t", "e", "l", "y">>,
   <<"u", "r", "g", "e", "n", "t">>,
   <<"n", "e", "x", "t", " ", "w", "e", "e", "k">>,
   <<"n", "e", "x", "t", " ", "m", "o", "n", "t", "h">>,
   <<"t", "h", "i", "s", " ", "m", "o", "n", "t", "h">>,
   <<"j", "a", "n", "u", "a", "r", "y">>,
   <<"f", "e", "b", "r", "u", "a", "r", "y">>, <<"m", "a", "r", "c", "h">>,
   <<"a", "p", "r", "i", "l">>, <<"m", "a", "y">>, <<"j", "u", "n", "e">>,
   <<"j", "u", "l", "y">>, <<"a", "u", "g", "u", "s", "t">>,
   <<"s", "e", "p", "t", "e", "m", "b", "e", "r">>,
   <<"o", "c", "t", "o", "b", "e", "r">>,
   <<"n", "o", "v", "e", "m", "b", "e", "r">>,
   <<"d", "e", "c", "e", "m", "b", "e", "r">>}

\* extractMoveIn(message) is truthy: a known word, or any text of at most
\* 20 characters that is not blank (message.trim() is returned).
ExtractMoveIn(message) ==
  \/ IncludesAny(ToLowerCase(message), MoveInWords)
  \/ Len(message) <= 20 /\ Trim(message) # <<>>

\* INTENT_PATTERNS.viewProperties, scheduleViewing, startApplication (anchored).
ViewPropertiesWords ==
  {<<"1">>, <<"v", "i", "e", "w">>,
   <<"p", "r", "o", "p", "e", "r", "t", "i", "e", "s">>,
   <<"l", "i", "s", "t", "i", "n", "g", "s">>, <<"s", "h", "o", "w">>}
ScheduleViewingWords ==
  {<<"2">>, <<"v", "i", "e", "w", "i", "n", "g">>,
   <<"v", "i", "s", "i", "t">>, <<"s", "c", "h", "e", "d", "u", "l", "e">>,
   <<"s", "e", "e">>}
\* (a variant that also takes a greeting as the start of an application)
StartApplicationWordsLoose ==
  {<<"3">>, <<"a", "p", "p", "l", "y">>,
   <<"a", "p", "p", "l", "i", "c", "a", "t", "i", "o", "n">>,
   <<"s", "t", "a", "r", "t">>, <<"h", "i">>}
StartApplicationWords ==
  {<<"3">>, <<"a", "p", "p", "l", "y">>,
   <<"a", "p", "p", "l", "i", "c", "a", "t", "i", "o", "n">>,
   <<"s", "t", "a", "r", "t">>}
\* generateFallbackResponse, state ACTION: /1|view|properties|list/,
\* /2|viewing|visit|see/, /3|apply|application/ (not anchored).
FallbackViewWords ==
  {<<"1">>, <<"v", "i", "e", "w">>,
   <<"p", "r", "o", "p", "e", "r", "t", "i", "e", "s">>,
   <<"l", "i", "s", "t">>}
FallbackScheduleWords ==
  {<<"2">>, <<"v", "i", "e", "w", "i", "n", "g">>,
   <<"v", "i", "s", "i", "t">>, <<"s", "e", "e">>}
FallbackApplyWords ==
  {<<"3">>, <<"a", "p", "p", "l", "y">>,
   <<"a", "p", "p", "l", "i", "c", "a", "t", "i", "o", "n">>}

(***************************************************************************)
(* The conversation engine: Lead, Conversation, AIReasoningService and     *)
(* ConversationService.  A store operation of a call is an effect; a call  *)
(* applies its effects in order.                                           *)
(***************************************************************************)
STATES == {"NEW_LEAD", "GREETING", "QUALIFICATION", "ACTION", "HANDOFF", "CLOSED"}

Phones == {"p1"}
Texts2 == {<<"h", "i">>, <<"h", "u", "m", "a", "n">>, <<"h", "e", "l", "p">>,
           <<"d", "i", "s", "c", "o", "u", "n", "t">>, <<"R", "5", "0", "0", "0">>,
           <<"5", ",", "0", "0", "0">>, <<"s", "a", "n", "d", "t", "o", "n">>,
           <<"2">>, <<"3">>}

\* Lead.create
NewLead(id, phone) ==
  [id |-> id, phone |-> phone, budget |-> FALSE, location |-> FALSE,
   moveInDate |-> FALSE, completed |-> FALSE, status |-> "new"]

\* Conversation.create
NewConversation(id, leadId) ==
  [id |-> id, leadId |-> leadId, state |-> "NEW_LEAD", currentField |-> "null",
   collected |-> [budget |-> FALSE, location |-> FALSE, moveInDate |-> FALSE],
   user |-> 0, assistant |-> 0]

\* leads.find(l => normalizePhone(l.phone) === normalizedPhone): 0 for none.
FindByPhone(items, phone) ==
  IF \E i \in DOMAIN items : items[i].phone = phone
  THEN CHOOSE i \in DOMAIN items :
         items[i].phone = phone /\ \A j \in DOMAIN items : items[j].phone = phone => i <= j
  ELSE 0

\* (a variant that takes a conversation handed off as still active)
IsActiveUnlessClosed(c, leadId) == c.leadId = leadId /\ c.state # "CLOSED"
IsActive(c, leadId) == c.leadId = leadId /\ c.state \notin {"CLOSED", "HANDOFF"}
\* Conversation.findActiveByLeadId: 0 for none.
FindActiveByLeadId(items, leadId) ==
  IF \E i \in DOMAIN items : IsActive(items[i], leadId)
  THEN CHOOSE i \in DOMAIN items :
         IsActive(items[i], leadId) /\ \A j \in DOMAIN items : IsActive(items[j], leadId) => i <= j
  ELSE 0

\* An effect: the store operation, the id it is about and its arguments.
Effect(op, id, arg, ctx) == [op |-> op, id |-> id, arg |-> arg, ctx |-> ctx]
KeepContext == [currentField |-> "keep", collected |-> {}]
Context(currentField, collected) == [currentField |-> currentField, collected |-> {collected}]
Log == Effect("log", 0, "", KeepContext)
AddMessage(id, role) == Effect("addMessage", id, role, KeepContext)

\* Lead.updateQualification(id, { [field]: value })
UpdateQualification(lead, field) ==
  LET q == [lead EXCEPT ![field] = TRUE]
      completed == q.budget /\ q.location /\ q.moveInDate
  IN [q EXCEPT !.completed = completed,
               !.status = IF completed THEN "qualified" ELSE lead.status]

\* (a variant that stores the context's field name as the state)
UpdateStateSwapped(c, newState, ctx) ==
  [c EXCEPT !.state = ctx.currentField,
            !.currentField = IF ctx.currentField = "keep" THEN @ ELSE ctx.currentField,
            !.collected = IF ctx.collected = {} THEN @ ELSE CHOOSE x \in ctx.collected : TRUE]

\* Conversation.updateState(id, newState, contextUpdates)
UpdateState(c, newState, ctx) ==
  [c EXCEPT !.state = newState,
            !.currentField = IF ctx.currentField = "keep" THEN @ ELSE ctx.currentField,
            !.collected = IF ctx.collected = {} THEN @ ELSE CHOOSE x \in ctx.collected : TRUE]

\* One store operation on the leads and conversations files; the record
\* with the id is the first one that has it.
Apply(s, e) ==
  LET li == FindIndex(s.leads, e.id)
      ci == FindIndex(s.convs, e.id)
  IN CASE e.op = "updateQualification" ->
            [s EXCEPT !.leads[li] = UpdateQualification(@, e.arg)]
       [] e.op = "updateState" -> [s EXCEPT !.convs[ci] = UpdateState(@, e.arg, e.ctx)]
       [] e.op = "handoff" -> [s EXCEPT !.convs[ci].state = "HANDOFF"]
       [] e.op = "addMessage" -> [s EXCEPT !.convs[ci][e.arg] = @ + 1]
       [] OTHER -> s

StatesOf(items) == {items[i].state : i \in DOMAIN items}

\* The effects applied in order: the files at the end and every state a
\* stored conversation had on the way.
Seen(seen, s) == [s |-> s, seen |-> seen \cup StatesOf(s.convs)]
RECURSIVE Run(_, _)
Run(r, effects) ==
  IF effects = <<>> THEN r
  ELSE Run(Seen(r.seen, Apply(r.s, Head(effects))), Tail(effects))

AiResult(source, intent, budget, location, moveInDate, shouldHandoff) ==
  [source |-> source, intent |-> intent, budget |-> budget, location |-> location,
   moveInDate |-> moveInDate, shouldHandoff |-> shouldHandoff]
NoAiResult == AiResult("none", "", FALSE, FALSE, FALSE, FALSE)

\* generateFallbackResponse(userMessage, context)
GenerateFallbackResponse(message, state) ==
  LET lower == ToLowerCase(message)
      Reply(intent, budget) == AiResult("fallback", intent, budget, FALSE, FALSE, FALSE)
  IN IF IncludesAny(lower, FallbackHandoffWords)
     THEN AiResult("fallback", "handoff", FALSE, FALSE, FALSE, TRUE)
     ELSE CASE state = "NEW_LEAD" -> Reply("greeting", FALSE)
            [] state = "GREETING" ->
                 IF \E j \in DOMAIN lower : IsDigit(lower[j])
                 THEN Reply("budget", FallbackBudget(message))
                 ELSE Reply("unknown", FALSE)
            [] state = "QUALIFICATION" -> Reply("qualification", FALSE)
            [] state = "ACTION" ->
                 IF IncludesAny(lower, FallbackViewWords) THEN Reply("view_properties", FALSE)
                 ELSE IF IncludesAny(lower, FallbackScheduleWords)
                 THEN Reply("schedule_viewing", FALSE)
                 ELSE IF IncludesAny(lower, FallbackApplyWords) THEN Reply("apply", FALSE)
                 ELSE Reply("unknown", FALSE)
            [] OTHER -> Reply("greeting", FALSE)

\* What the LLM call does: no client, a call that throws, or a parsed reply
\* (confidence in hundredths, 0 when the reply has none).
LlmReply(intent, budget, location, moveInDate, shouldHandoff, confidence) ==
  [client |-> TRUE, throws |-> FALSE, intent |-> intent, budget |-> budget,
   location |-> location, moveInDate |-> moveInDate, shouldHandoff |-> shouldHandoff,
   confidence |-> confidence]
NoLlm == [LlmReply("", FALSE, FALSE, FALSE, FALSE, 0) EXCEPT !.client = FALSE]
LlmOutcomes ==
  {NoLlm,
   [LlmReply("", FALSE, FALSE, FALSE, FALSE, 0) EXCEPT !.throws = TRUE],
   LlmReply("unknown", FALSE, FALSE, FALSE, FALSE, 90),
   LlmReply("budget", TRUE, FALSE, FALSE, FALSE, 90),
   LlmReply("move_in", FALSE, TRUE, TRUE, FALSE, 90),
   LlmReply("apply", FALSE, FALSE, FALSE, FALSE, 90),
   LlmReply("handoff", FALSE, FALSE, FALSE, TRUE, 90),
   LlmReply("greeting", FALSE, FALSE, FALSE, FALSE, 30)}

\* Math.min(Math.max(parsed.confidence || 0.5, 0), 1), in hundredths.
Confidence(c) ==
  LET d == IF c = 0 THEN 50 ELSE c
  IN IF d < 0 THEN 0 ELSE IF d > 100 THEN 100 ELSE d

\* parseFloat(process.env.AI_CONFIDENCE_THRESHOLD) || 0.7, in hundredths.
ConfidenceThreshold == 70

\* AIReasoningService.generateResponse(userMessage, context)
\* (a variant that rethrows when there is no client or the call fails)
GenerateResponseThrows(message, state, llm) ==
  IF ContainsForbiddenTopic(message)
  THEN AiResult("forbidden", "handoff", FALSE, FALSE, FALSE, TRUE)
  ELSE IF ~llm.client \/ llm.throws THEN NoAiResult
  ELSE AiResult("llm", llm.intent, llm.budget, llm.location, llm.moveInDate,
                llm.shouldHandoff \/ Confidence(llm.confidence) < ConfidenceThreshold)
GenerateResponse(message, state, llm) ==
  IF ContainsForbiddenTopic(message)
  THEN AiResult("forbidden", "handoff", FALSE, FALSE, FALSE, TRUE)
  ELSE IF ~llm.client \/ llm.throws THEN GenerateFallbackResponse(message, state)
  ELSE AiResult("llm", llm.intent, llm.budget, llm.location, llm.moveInDate,
                llm.shouldHandoff \/ Confidence(llm.confidence) < ConfidenceThreshold)

\* The answers to the messages of the model, each computed once.
ShouldHandoffOf == [b \in Texts2 |-> ShouldHandoff(b)]
GenerateResponseOf ==
  [k \in Texts2 \X STATES \X LlmOutcomes |-> GenerateResponse(k[1], k[2], k[3])]
Matches(body) ==
  [budget |-> ExtractBudget(body), location |-> ExtractLocation(body),
   moveIn |-> ExtractMoveIn(body), lower |-> ToLowerCase(body)]
MatchesOf == [b \in Texts2 |-> Matches(b)]

\* aiResult.handoffReason || 'ai_uncertain': the reason of a forbidden
\* topic, of the fallback, or one of the LLM's.
HandoffReason(ai) ==
  IF ai.source = "forbidden" THEN "forbidden_topic"
  ELSE IF ai.source = "fallback" THEN "user_requested"
  ELSE "ai"

\* processWithAI: the store operations of its try block, in order.
ProcessWithAI(ai, conv, lead) ==
  LET leadDone == (lead.budget \/ ai.budget) /\ (lead.location \/ ai.location)
      collected == [budget |-> conv.collected.budget \/ ai.budget,
                    location |-> conv.collected.location \/ ai.location,
                    moveInDate |-> conv.collected.moveInDate \/ ai.moveInDate]
      currentField ==
        IF ai.location THEN "moveInDate"
        ELSE IF ai.budget /\ conv.state = "GREETING" THEN "location"
        ELSE conv.currentField
      newState ==
        IF ai.intent \in {"view_properties", "schedule_viewing", "apply"} THEN "ACTION"
        ELSE IF ai.moveInDate /\ leadDone THEN "ACTION"
        ELSE IF ai.budget /\ conv.state = "GREETING" THEN "QUALIFICATION"
        ELSE conv.state
      Extracted(field) ==
        IF ai[field] THEN <<Effect("updateQualification", lead.id, field, KeepContext), Log>>
        ELSE <<>>
  IN IF ai.shouldHandoff
     THEN <<Effect("handoff", conv.id, HandoffReason(ai), KeepContext),
            AddMessage(conv.id, "assistant"), Log>>
     ELSE Extracted("budget") \o Extracted("location") \o Extracted("moveInDate")
          \o (IF ai.moveInDate /\ leadDone THEN <<Log>> ELSE <<>>)
          \o (IF ai.intent \in {"schedule_viewing", "apply"} THEN <<Log>> ELSE <<>>)
          \o <<Effect("updateState", conv.id, newState, Context(currentField, collected)),
               AddMessage(conv.id, "assistant")>>

\* processWithTemplates (with handleQualification and handleAction): its
\* store operations, in order.
ProcessWithTemplates(body, conv, lead) ==
  LET Set(field) == Effect("updateQualification", lead.id, field, KeepContext)
      field == IF conv.currentField = "null" THEN "location" ELSE conv.currentField
      m == MatchesOf[body]
      lower == m.lower
      steps ==
        CASE conv.state = "NEW_LEAD" ->
               <<Effect("updateState", conv.id, "GREETING", KeepContext)>>
          [] conv.state = "GREETING" ->
               IF m.budget
               THEN <<Set("budget"), Log,
                      Effect("updateState", conv.id, "QUALIFICATION",
                             Context("location", [conv.collected EXCEPT !.budget = TRUE]))>>
               ELSE <<>>
          [] conv.state = "QUALIFICATION" ->
               IF field = "location" /\ m.location
               THEN <<Set("location"), Log,
                      Effect("updateState", conv.id, "QUALIFICATION",
                             Context("moveInDate", [conv.collected EXCEPT !.location = TRUE]))>>
               ELSE IF field = "moveInDate" /\ m.moveIn
               THEN <<Set("moveInDate"), Log, Log,
                      Effect("updateState", conv.id, "ACTION",
                             Context("null", [conv.collected EXCEPT !.moveInDate = TRUE]))>>
               ELSE <<Effect("updateState", conv.id, "QUALIFICATION",
                             Context("keep", conv.collected))>>
          [] conv.state = "ACTION" ->
               IF lower \in ViewPropertiesWords THEN <<>>
               ELSE IF lower \in ScheduleViewingWords THEN <<Log>>
               ELSE IF lower \in StartApplicationWords
               THEN <<Log, Effect("updateState", conv.id, "CLOSED", KeepContext)>>
               ELSE <<>>
          [] OTHER -> <<Effect("updateState", conv.id, "GREETING", KeepContext)>>
  IN steps \o <<AddMessage(conv.id, "assistant")>>

\* The reason Conversation.handoff stored in the call ("null": it was not
\* called).
HandoffReasonOf(effects) ==
  IF \E i \in DOMAIN effects : effects[i].op = "handoff"
  THEN effects[CHOOSE i \in DOMAIN effects : effects[i].op = "handoff"].arg
  ELSE "null"

Total(items, role) ==
  LET RECURSIVE Sum(_)
      Sum(k) == IF k = 0 THEN 0 ELSE items[k][role] + Sum(k - 1)
  IN Sum(Len(items))

\* processMessage(from, body): `llm` is what the LLM call does, `failAt` the
\* store operation of processWithAI that throws (0: none does).
ProcessMessage(from, body, llm, failAt) ==
  /\ turn.n < MaxTurns
  /\ ~llmApiKey \/ ShouldHandoffOf[body] => failAt = 0 /\ llm = NoLlm
  /\ \E leads1 \in {IF FindByPhone(leads, from) = 0
                    THEN Append(leads, NewLead(now, from)) ELSE leads} :
     \E lead \in {leads1[FindByPhone(leads1, from)]} :
     \E ci \in {FindActiveByLeadId(convs, lead.id)} :
     \E convs1 \in {IF ci = 0 THEN Append(convs, NewConversation(now, lead.id)) ELSE convs} :
     \E conv \in {convs1[FindActiveByLeadId(convs1, lead.id)]} :
     \E ai \in {IF llmApiKey /\ ~ShouldHandoffOf[body]
                THEN GenerateResponseOf[<<body, conv.state, llm>>] ELSE NoAiResult} :
     \E aiSteps \in {IF ai = NoAiResult THEN <<>> ELSE ProcessWithAI(ai, conv, lead)} :
       /\ ci = 0 => Len(convs) < MaxConvs
       /\ failAt <= Len(aiSteps)
       /\ \E effects \in {<<AddMessage(conv.id, "user"), Log>>
                          \o (IF ShouldHandoffOf[body]
                              THEN <<Effect("handoff", conv.id, "user_requested", KeepContext),
                                     AddMessage(conv.id, "assistant"), Log>>
                              ELSE IF ~llmApiKey THEN ProcessWithTemplates(body, conv, lead)
                              ELSE IF failAt = 0 THEN aiSteps
                              ELSE SubSeq(aiSteps, 1, failAt - 1)
                                   \o ProcessWithTemplates(body, conv, lead))} :
          \E end \in {Run([s |-> [leads |-> leads1, convs |-> convs1],
                           seen |-> StatesOf(convs1)], effects)} :
            /\ leads' = end.s.leads
            /\ convs' = end.s.convs
            /\ seenStates' = seenStates \cup end.seen
            /\ turn' = [n |-> turn.n + 1, conv |-> conv.id, source |-> ai.source,
                        path |-> IF ShouldHandoffOf[body] THEN "handoff"
                                 ELSE IF ~llmApiKey THEN "templates"
                                 ELSE IF failAt = 0 THEN "ai" ELSE "ai+templates",
                        threw |-> failAt > 0, llmFailed |-> ~llm.client \/ llm.throws,
                        handoffReason |-> HandoffReasonOf(effects),
                        assistant |-> Total(end.s.convs, "assistant")
                                      - Total(convs, "assistant")]
  /\ now' = now + 1
  /\ UNCHANGED <<ticks, llmApiKey>>

\* The deployment sets LLM_API_KEY.
SetApiKey ==
  /\ ~llmApiKey
  /\ turn.n = 0
  /\ llmApiKey' = TRUE
  /\ UNCHANGED <<now, ticks, leads, convs, seenStates, turn>>

NoTurn ==
  [n |-> 0, conv |-> 0, source |-> "none", path |-> "none", threw |-> FALSE,
   llmFailed |-> FALSE, handoffReason |-> "null", assistant |-> 0]

ConvInit ==
  /\ leads = <<>>
  /\ convs = <<>>
  /\ llmApiKey = FALSE
  /\ seenStates = {}
  /\ turn = NoTurn

NotConv == <<resp, authVars, propVars, storeVars, cacheVars, msgVars, moreVars>>

NextConv ==
  \/ SetApiKey /\ UNCHANGED NotConv
  \/ \E from \in Phones, body \in Texts2, llm \in LlmOutcomes, failAt \in 0..MaxFailAt :
       ProcessMessage(from, body, llm, failAt) /\ UNCHANGED NotConv

(***************************************************************************)
(* Rental applications: applicationRoutes and ApplicationService.  An      *)
(* application keeps id, status, applicantEmail and propertyId; the other  *)
(* required fields of a submission are tested as applicantName is.         *)
(***************************************************************************)
MaxApplications == 2   \* applications a run may store

PropertyIdTexts == {Undef, Str(<<"1">>)}
ApplicantNames == {Undef, Str(<<>>), Str(<<"N">>)}
ApplicantEmails ==
  {Undef, Str(<<"a", "@", "b", ".", "c">>), Str(<<"a", "@", "b">>),
   Str(<<"a", " ", "@", "b", ".", "c">>)}
\* A `status` key of the submitted form, which the route does not read.
SentStatuses == {Undef, Str(<<"o", "k">>)}
ApplicationIdParams == {<<"1">>, <<"2">>, <<"7">>, <<"x">>}
\* The `status` of a status request ("": none sent).
ApplicationStatusValues ==
  {"pending", "approved", "rejected", "withdrawn", "archived", "Approved", ""}

\* validStatuses of PATCH /api/application/:id/status
\* (a variant that also takes 'archived', as the message route does)
ApplicationValidStatusesLoose == {"pending", "approved", "rejected", "withdrawn", "archived"}
ApplicationValidStatuses == {"pending", "approved", "rejected", "withdrawn"}

\* JsonStore.read of applications.json (default data: []).
ReadApplications(file) == IF file.exists THEN file.items ELSE <<>>

\* The object the route passes to ApplicationService.create.
ApplicationData(body) ==
  [propertyId |-> ParseInt(body.propertyId.s), applicantEmail |-> body.applicantEmail.s]

\* ApplicationService.create: { ...appData, id: newId, status: 'pending' }
NewApplication(items, appData) ==
  [id |-> IF Len(items) > 0 THEN MaxOf(Ids(items)) + 1 ELSE 1,
   status |-> "pending",
   applicantEmail |-> appData.applicantEmail, propertyId |-> appData.propertyId]

\* POST /api/application (public)
SubmitApplication(body) ==
  LET items == ReadApplications(appFile)
      created == NewApplication(items, ApplicationData(body))
      Reply(status, code, file) ==
        /\ resp' = [Response("applicationSubmit", "none", status, code) EXCEPT
                      !.id = IF status = 201 THEN created.id ELSE 0,
                      !.body = body]
        /\ appFile' = file
  IN /\ IF ~Truthy(body.propertyId) \/ ~Truthy(body.applicantName)
           \/ ~Truthy(body.applicantEmail)
        THEN Reply(400, "VALIDATION_ERROR", appFile)
        ELSE IF ~EmailRegexTest(body.applicantEmail.s)
        THEN Reply(400, "VALIDATION_ERROR", appFile)
        ELSE /\ created.id <= MaxApplications
             /\ Reply(201, "", File(Append(items, created)))
     /\ UNCHANGED <<now, ticks, authVars>>

\* PATCH /api/application/:id/status (admin)
ApplicationUpdateStatus(sid, idText, status) ==
  LET st == RequireAdmin(sessions[sid])
      id == ParseInt(idText)
      items == ReadApplications(appFile)
      i == FindIndex(items, id)
      Reply(code, errorCode, file) ==
        /\ resp' = [Response("applicationStatus", sid, code, errorCode) EXCEPT
                      !.id = id, !.body = [status |-> status]]
        /\ appFile' = file
  IN /\ IF st # 0 THEN Reply(st, "", appFile)
        ELSE IF status \notin ApplicationValidStatuses
        THEN Reply(400, "VALIDATION_ERROR", appFile)
        ELSE IF i = 0 THEN Reply(404, "NOT_FOUND", File(items))
        ELSE Reply(200, "", File([items EXCEPT ![i].status = status]))
     /\ UNCHANGED <<now, ticks, authVars>>

AppInit == appFile = MissingFile

NotApp == <<propVars, storeVars, cacheVars, msgVars, convVars, mailVars, raceVars, limitVars,
            flowVars>>

NextApp ==
  \/ /\ \A k \in LoginSlots : logins[k] = IdleLogin
     /\ ~loggedIn["s1"]
     /\ LoginStart("s1", "ip1", "admin", "password123")
     /\ UNCHANGED <<appVars, NotApp>>
  \/ \E k \in LoginSlots : LoginFinish(k) /\ UNCHANGED <<appVars, NotApp>>
  \/ \E p \in PropertyIdTexts, n \in ApplicantNames, e \in ApplicantEmails,
        st \in SentStatuses :
       SubmitApplication([propertyId |-> p, applicantName |-> n, applicantEmail |-> e,
                          status |-> st]) /\ UNCHANGED NotApp
  \/ \E t \in ApplicationIdParams, st \in ApplicationStatusValues :
       ApplicationUpdateStatus("s1", t, st) /\ UNCHANGED NotApp

(***************************************************************************)
(* EmailService (Resend) and EmailLogService.                              *)
(***************************************************************************)
MaxEmailLogs == 3   \* entries a run may write to email_logs.json

\* What client.emails.send does: resolves with data, resolves with an
\* error, or rejects.
ProviderOutcomes == {"data", "error", "throws"}
\* What the store of the email log does: reads and writes, or rejects (a
\* file that is no JSON, a write the file system refuses).
LogOutcomes == {"ok", "throws"}
MailStatuses == {"approved", "rejected", "pending", "withdrawn"}

NoMailConfig == [apiKey |-> FALSE, ownerEmail |-> FALSE]
MailConfigs == [apiKey : BOOLEAN, ownerEmail : BOOLEAN]

\* How a call ended: the promise resolved with { success, error } or was
\* rejected; whether a failure happened on the way.
MailResult(method, settled, success, error, failed) ==
  [method |-> method, settled |-> settled, success |-> success, error |-> error,
   failed |-> failed]
NoMailResult == MailResult("none", "none", FALSE, "", FALSE)

\* sendEmail({ to, subject, html }): the object it resolves with.
SendEmailResult(provider) ==
  IF ~mailConfig.apiKey THEN [success |-> FALSE, error |-> "Email not configured"]
  ELSE IF provider = "data" THEN [success |-> TRUE, error |-> ""]
  ELSE IF provider = "error" THEN [success |-> FALSE, error |-> "provider error"]
  ELSE [success |-> FALSE, error |-> "provider threw"]

\* JsonStore.read of email_logs.json (default data: []).
ReadEmailLogs(file) == IF file.exists THEN file.items ELSE <<>>

\* EmailLogService.log: the entry appended.
NewEmailLog(logs, type, result) ==
  [id |-> IF Len(logs) > 0 THEN MaxOf(Ids(logs)) + 1 ELSE 1,
   type |-> type, status |-> IF result.success THEN "sent" ELSE "failed"]

\* The end of sendApplicantConfirmation and of sendStatusUpdate:
\* `await emailLogService.log(...)`, then `return result`.
LogAndReturn(method, type, result, log) ==
  LET logs == ReadEmailLogs(emailLogs)
  IN IF log = "throws"
     THEN /\ mailResult' = MailResult(method, "rejected", FALSE, "", TRUE)
          /\ UNCHANGED emailLogs
     ELSE /\ Len(logs) < MaxEmailLogs
          /\ emailLogs' = File(Append(logs, NewEmailLog(logs, type, result)))
          /\ mailResult' = MailResult(method, "resolved", result.success, result.error,
                                      ~result.success)

\* sendEmail
SendEmail(provider) ==
  LET result == SendEmailResult(provider)
  IN /\ mailResult' = MailResult("sendEmail", "resolved", result.success, result.error,
                                 ~result.success)
     /\ UNCHANGED <<mailConfig, emailLogs>>

\* sendOwnerNotification(application, property)
SendOwnerNotification(provider) ==
  LET result == IF ~mailConfig.ownerEmail
                THEN [success |-> FALSE, error |-> "Owner email not configured"]
                ELSE SendEmailResult(provider)
  IN /\ mailResult' = MailResult("sendOwnerNotification", "resolved", result.success,
                                 result.error, ~result.success)
     /\ UNCHANGED <<mailConfig, emailLogs>>

\* sendApplicantConfirmation(application, property)
SendApplicantConfirmation(provider, log) ==
  /\ LogAndReturn("sendApplicantConfirmation", "confirmation", SendEmailResult(provider), log)
  /\ UNCHANGED mailConfig

\* sendStatusUpdate(application, status, notes, property)
SendStatusUpdate(status, provider, log) ==
  /\ LogAndReturn("sendStatusUpdate", "status_update", SendEmailResult(provider), log)
  /\ UNCHANGED mailConfig

\* The deployment sets RESEND_API_KEY and OWNER_EMAIL.
SetMailConfig(config) ==
  /\ mailConfig = NoMailConfig
  /\ mailResult = NoMailResult
  /\ config # NoMailConfig
  /\ mailConfig' = config
  /\ UNCHANGED <<emailLogs, mailResult>>

MailInit ==
  /\ mailConfig = NoMailConfig
  /\ emailLogs = MissingFile
  /\ mailResult = NoMailResult

NotMail == <<now, ticks, resp, authVars, propVars, storeVars, cacheVars, msgVars, convVars,
             appVars, raceVars, limitVars, flowVars>>

NextMail ==
  \/ \E c \in MailConfigs : SetMailConfig(c) /\ UNCHANGED NotMail
  \/ \E p \in ProviderOutcomes : SendEmail(p) /\ UNCHANGED NotMail
  \/ \E p \in ProviderOutcomes : SendOwnerNotification(p) /\ UNCHANGED NotMail
  \/ \E p \in ProviderOutcomes, l \in LogOutcomes :
       SendApplicantConfirmation(p, l) /\ UNCHANGED NotMail
  \/ \E st \in MailStatuses, p \in ProviderOutcomes, l \in LogOutcomes :
       SendStatusUpdate(st, p, l) /\ UNCHANGED NotMail

(***************************************************************************)
(* processMessage, await by await: two calls in flight.  Each step is one  *)
(* of the store operations the call awaits; the operations after the       *)
(* conversation is found or created are taken together.  No LLM key is     *)
(* set: the calls answer through the handoff check and the templates.      *)
(***************************************************************************)
MaxCalls == 3   \* processMessage calls a run may start

RaceSlots == {1, 2}
RaceTexts == {<<"h", "i">>, <<"h", "u", "m", "a", "n">>}

NoLead == NewLead(0, "none")
NoConversation == NewConversation(0, 0)
IdleProc ==
  [pc |-> "idle", from |-> "none", body |-> <<>>, lead |-> NoLead, conv |-> NoConversation]

SetProc(k, proc) == procs' = [procs EXCEPT !.at[k] = proc]

\* processMessage(from, body) is called: `await leadModel.findByPhone(from)`.
Receive(k, from, body) ==
  /\ procs.at[k].pc = "idle"
  /\ procs.n < MaxCalls
  /\ procs' = [n |-> procs.n + 1,
               at |-> [procs.at EXCEPT ![k] =
                         [IdleProc EXCEPT !.pc = "findByPhone", !.from = from, !.body = body]]]
  /\ UNCHANGED <<now, ticks, convVars>>

\* findByPhone returns: with no lead, `await leadModel.create(...)`; with
\* one, `await conversationModel.findActiveByLeadId(lead.id)`.
FindByPhoneReturns(k) ==
  LET proc == procs.at[k]
      i == FindByPhone(leads, proc.from)
  IN /\ proc.pc = "findByPhone"
     /\ SetProc(k, IF i = 0 THEN [proc EXCEPT !.pc = "createLead"]
                   ELSE [proc EXCEPT !.pc = "findActiveByLeadId", !.lead = leads[i]])
     /\ UNCHANGED <<now, ticks, convVars>>

\* Lead.create returns, the lead added to the file.
CreateLeadReturns(k) ==
  LET proc == procs.at[k]
      lead == NewLead(now, proc.from)
  IN /\ proc.pc = "createLead"
     /\ Len(leads) < MaxConvs
     /\ leads' = Append(leads, lead)
     /\ SetProc(k, [proc EXCEPT !.pc = "findActiveByLeadId", !.lead = lead])
     /\ UNCHANGED <<now, ticks, convs, llmApiKey, seenStates, turn>>

\* findActiveByLeadId returns: with no conversation,
\* `await conversationModel.create(lead.id, channel)`.
FindActiveReturns(k) ==
  LET proc == procs.at[k]
      i == FindActiveByLeadId(convs, proc.lead.id)
  IN /\ proc.pc = "findActiveByLeadId"
     /\ SetProc(k, IF i = 0 THEN [proc EXCEPT !.pc = "createConversation"]
                   ELSE [proc EXCEPT !.pc = "respond", !.conv = convs[i]])
     /\ UNCHANGED <<now, ticks, convVars>>

\* Conversation.create returns, the conversation added to the file.
CreateConversationReturns(k) ==
  LET proc == procs.at[k]
      conv == NewConversation(now, proc.lead.id)
  IN /\ proc.pc = "createConversation"
     /\ Len(convs) < MaxConvs
     /\ convs' = Append(convs, conv)
     /\ SetProc(k, [proc EXCEPT !.pc = "respond", !.conv = conv])
     /\ UNCHANGED <<now, ticks, leads, llmApiKey, seenStates, turn>>

\* The rest of the call: the user message is added, then the handoff or
\* the templates answer, from the lead and the conversation the call holds.
Respond(k) ==
  LET proc == procs.at[k]
      end == Run([s |-> [leads |-> leads, convs |-> convs], seen |-> {}],
                 <<AddMessage(proc.conv.id, "user"), Log>>
                 \o (IF ShouldHandoffOf[proc.body]
                     THEN <<Effect("handoff", proc.conv.id, "user_requested", KeepContext),
                            AddMessage(proc.conv.id, "assistant"), Log>>
                     ELSE ProcessWithTemplates(proc.body, proc.conv, proc.lead)))
  IN /\ proc.pc = "respond"
     /\ leads' = end.s.leads
     /\ convs' = end.s.convs
     /\ SetProc(k, IdleProc)
     /\ UNCHANGED <<now, ticks, llmApiKey, seenStates, turn>>

\* Date.now() moves on.
RaceTick ==
  /\ ticks < MaxTicks
  /\ now' = now + 1
  /\ ticks' = ticks + 1
  /\ UNCHANGED <<convVars, procs>>

RaceInit == procs = [n |-> 0, at |-> [k \in RaceSlots |-> IdleProc]]

NotRace == <<resp, authVars, propVars, storeVars, cacheVars, msgVars, appVars, mailVars,
             limitVars, flowVars>>

NextRace ==
  \/ \E k \in RaceSlots, body \in RaceTexts : Receive(k, "p1", body) /\ UNCHANGED NotRace
  \/ \E k \in RaceSlots : FindByPhoneReturns(k) /\ UNCHANGED NotRace
  \/ \E k \in RaceSlots : CreateLeadReturns(k) /\ UNCHANGED NotRace
  \/ \E k \in RaceSlots : FindActiveReturns(k) /\ UNCHANGED NotRace
  \/ \E k \in RaceSlots : CreateConversationReturns(k) /\ UNCHANGED NotRace
  \/ \E k \in RaceSlots : Respond(k) /\ UNCHANGED NotRace
  \/ RaceTick /\ UNCHANGED NotRace

(***************************************************************************)
(* The login rate limiter with the times of the rejections recorded: with  *)
(* one request at a time over several windows, and with several requests   *)
(* in flight, all with a wrong password, within one window.                *)
(***************************************************************************)
\* The password comparison of a login returned: a 401 is recorded with its
\* time; a 200 starts the record anew.
Rejected401 ==
  rejections' = IF resp'.status = 401 THEN Append(rejections, now)
                ELSE IF resp'.status = 200 THEN <<>>
                ELSE rejections

\* Time passes: a millisecond, or a millisecond less than the window.
RateSteps == {1, WindowMs - 1}
RateTick ==
  /\ ticks < MaxTicks
  /\ \E d \in RateSteps : now' = now + d
  /\ ticks' = ticks + 1
  /\ UNCHANGED <<resp, authVars, limitVars>>

LimitTick ==
  /\ ticks < MaxTicks
  /\ now' = now + 1
  /\ ticks' = ticks + 1
  /\ UNCHANGED <<resp, authVars, limitVars>>

\* A login request was received: its time, its credentials, and the status
\* it was answered with before any password comparison (0: the comparison
\* began).
NoAttempt == [at |-> 0, username |-> "", password |-> "", status |-> 0]
Attempted(username, password) ==
  attempt' = [at |-> now, username |-> username, password |-> password,
              status |-> IF logins' # logins THEN 0 ELSE resp'.status]

LimitInit == rejections = <<>> /\ attempt = NoAttempt

NotLimit == <<propVars, storeVars, cacheVars, msgVars, convVars, appVars, mailVars, raceVars,
              flowVars>>

NextRate ==
  \/ \E password \in {"password123", "letmein", ""} :
       /\ OneLogin
       /\ LoginStart("s1", "ip1", "admin", password)
       /\ Attempted("admin", password)
       /\ UNCHANGED <<rejections, NotLimit>>
  \/ \E k \in LoginSlots :
       LoginFinish(k) /\ Rejected401 /\ UNCHANGED <<attempt, NotLimit>>
  \/ Logout("s1") /\ UNCHANGED <<limitVars, NotLimit>>
  \/ RateTick /\ UNCHANGED NotLimit

NextLimit ==
  \/ /\ LoginStart("s1", "ip1", "admin", "letmein")
     /\ Attempted("admin", "letmein")
     /\ UNCHANGED <<rejections, NotLimit>>
  \/ \E k \in LoginSlots :
       LoginFinish(k) /\ Rejected401 /\ UNCHANGED <<attempt, NotLimit>>
  \/ LimitTick /\ UNCHANGED NotLimit

(***************************************************************************)
(* processMessage with the message it was given recorded.                  *)
(***************************************************************************)
\* The messages of the flow: what the LLM does is one of four outcomes.
FlowLlmOutcomes ==
  {NoLlm, LlmReply("budget", TRUE, FALSE, FALSE, FALSE, 90),
   LlmReply("apply", FALSE, FALSE, FALSE, FALSE, 90),
   LlmReply("greeting", FALSE, FALSE, FALSE, FALSE, 30)}

NoReceived == [from |-> "none", body |-> <<>>]

FlowInit == received = NoReceived

NotFlow == <<resp, authVars, propVars, storeVars, cacheVars, msgVars, appVars, mailVars,
             raceVars, limitVars>>

NextFlow ==
  \/ SetApiKey /\ UNCHANGED <<received, NotFlow>>
  \/ \E from \in Phones, body \in Texts2, llm \in FlowLlmOutcomes, failAt \in 0..1 :
       /\ ProcessMessage(from, body, llm, failAt)
       /\ received' = [from |-> from, body |-> body]
       /\ UNCHANGED NotFlow

(***************************************************************************)
(* Specifications                                                          *)
(***************************************************************************)
Init ==
  /\ AuthInit /\ PropInit /\ StoreInit /\ CacheInit /\ MsgInit /\ ConvInit
  /\ AppInit /\ MailInit /\ RaceInit /\ LimitInit /\ FlowInit

FeaturedValues == {Undef, Bool(FALSE)}
NotProp == <<storeVars, cacheVars, msgVars, convVars, moreVars>>

\* One login at a time
Next ==
  \/ \E sid \in SessionIds, password \in {"password123", "letmein"} :
       OneLogin /\ LoginStart(sid, "ip1", "admin", password) /\ UNCHANGED <<propVars, NotProp>>
  \/ \E k \in LoginSlots :
       LoginFinish(k) /\ UNCHANGED <<propVars, NotProp>>
  \/ \E sid \in SessionIds :
       Logout(sid) /\ UNCHANGED <<propVars, NotProp>>
  \/ \E sid \in SessionIds, t \in {<<"1">>, <<"9">>} :
       PropGetById(sid, t) /\ UNCHANGED NotProp
  \/ \E sid \in SessionIds :
       PropGetAll(sid, Undef) /\ UNCHANGED NotProp
  \/ \E sid \in SessionIds, b \in {BodyTrim, BodyBadPrice} :
       PropCreate(sid, b) /\ UNCHANGED NotProp
  \/ \E sid \in SessionIds, t \in {<<"1">>, <<"9">>}, b \in {BodyPartial} :
       PropUpdate(sid, t, b) /\ UNCHANGED NotProp
  \/ \E sid \in SessionIds, t \in {<<"1">>, <<"9">>} :
       PropDelete(sid, t) /\ UNCHANGED NotProp
  \/ \E sid \in SessionIds, t \in {<<"1">>, <<"9">>} :
       PropToggle(sid, t) /\ UNCHANGED NotProp
  \/ \E sid \in SessionIds, t \in {<<"1">>, <<"9">>}, f \in FeaturedValues :
       PropSetFeatured(sid, t, f) /\ UNCHANGED NotProp

Spec == Init /\ [][Next]_vars

NextProp ==
  \/ OneLogin /\ ~loggedIn["s1"] /\ LoginStart("s1", "ip1", "admin", "password123") /\ UNCHANGED <<propVars, NotProp>>
  \/ \E k \in LoginSlots :
       LoginFinish(k) /\ UNCHANGED <<propVars, NotProp>>
  \/ \E t \in IdParams :
       PropGetById("s1", t) /\ UNCHANGED NotProp
  \/ \E a \in AvailableFilters :
       PropGetAll("s1", a) /\ UNCHANGED NotProp
  \/ \E b \in Bodies :
       PropCreate("s1", b) /\ UNCHANGED NotProp
  \/ \E t \in IdParams, b \in {BodyBadPrice, BodyPartial} :
       PropUpdate("s1", t, b) /\ UNCHANGED NotProp
  \/ \E t \in IdParams :
       PropDelete("s1", t) /\ UNCHANGED NotProp
  \/ \E t \in IdParams :
       PropToggle("s1", t) /\ UNCHANGED NotProp
  \/ \E t \in IdParams, f \in FeaturedValues :
       PropSetFeatured("s1", t, f) /\ UNCHANGED NotProp

SpecProp == Init /\ [][NextProp]_vars

Credentials == {<<"admin", "password123">>, <<"admin", "letmein">>, <<"admin", "">>}

NotAuth == <<propVars, storeVars, cacheVars, msgVars, convVars, moreVars>>

NextAuth ==
  \/ \E sid \in SessionIds, c \in Credentials :
       OneLogin /\ LoginStart(sid, "ip1", c[1], c[2]) /\ UNCHANGED NotAuth
  \/ \E k \in LoginSlots : LoginFinish(k) /\ UNCHANGED NotAuth
  \/ \E sid \in SessionIds : Logout(sid) /\ UNCHANGED NotAuth
  \/ \E sid \in SessionIds : GetStatus(sid) /\ UNCHANGED NotAuth
  \/ \E sid \in SessionIds : AdminRoute(sid) /\ UNCHANGED NotAuth
  \/ Tick /\ UNCHANGED NotAuth

SpecAuth == Init /\ [][NextAuth]_vars

SpecStore == Init /\ [][NextStore]_vars

SpecCache == Init /\ [][NextCache]_vars

SpecMsg == Init /\ [][NextMsg]_vars

SpecConv == Init /\ [][NextConv]_vars

SpecApp == Init /\ [][NextApp]_vars

SpecMail == Init /\ [][NextMail]_vars

SpecRace == Init /\ [][NextRace]_vars

SpecLimit == Init /\ [][NextLimit]_vars

SpecRate == Init /\ [][NextRate]_vars

SpecFlow == Init /\ [][NextFlow]_vars

(***************************************************************************)
(* Properties                                                              *)
(***************************************************************************)
WriteRoutes == {"create", "update", "delete", "toggle", "setFeatured"}
IdRoutes == {"getById", "update", "delete", "toggle", "setFeatured"}

\* The step sends a response (or changes the file named).
Answers(route) == resp'.route = route /\ resp' # resp

\* C1: the content of the property store changes only in a step that
\* answers a write route with success for a session that a successful login
\* established and no logout has destroyed since; a write request of a
\* session without a user is answered 401 and one of a session with a user
\* but without the admin flag 403, the file staying as it is.
C1_AdminOnlyWrites ==
  [][LET sid == resp'.sid
     IN /\ ReadProperties(propFile') # ReadProperties(propFile) =>
             /\ resp'.route \in WriteRoutes
             /\ resp'.status \in {200, 201}
             /\ loggedIn[sid]
        /\ resp'.route \in WriteRoutes /\ resp' # resp /\ sessions[sid].userId = 0 =>
             resp'.status = 401 /\ propFile' = propFile
        /\ resp'.route \in WriteRoutes /\ resp' # resp
           /\ sessions[sid].userId # 0 /\ ~sessions[sid].isAdmin =>
             resp'.status = 403 /\ propFile' = propFile
        /\ RequireAdmin([userId |-> 1, isAdmin |-> FALSE]) = 403]_vars

\* A property created by the logged-in session is in the store while the
\* write of the other session, which never logged in, was answered 401.
C1_Witness ==
  /\ resp.route \in WriteRoutes /\ resp.status = 401 /\ resp.sid = "s2"
  /\ loggedIn["s1"] /\ ~loggedIn["s2"]
  /\ 2 \in Ids(ReadProperties(propFile))

Valid(login) == CredentialsValid(login.username, login.password)
Missing(login) == login.username = "" \/ login.password = ""
\* The rate limiter refuses the address at this time.
Limited(ip) ==
  loginAttempts[ip] # 0 /\ RateLimited(attemptObjs[loginAttempts[ip]], now)

\* What holds of every answer of the status, logout and admin-only routes.
SessionAnswers ==
  /\ Answers("status") => resp'.auth = loggedIn[resp'.sid]
  /\ Answers("adminRead") =>
       resp'.status = (IF loggedIn[resp'.sid] THEN 200 ELSE 401)
  /\ Answers("logout") => ~IsAuthenticated(sessions'[resp'.sid])

C3_Original == Cardinality(seenStates) <= 4

\* C3, amended: the values a stored conversation's state takes are those of
\* STATES, which are six (and all six are taken: C3_Witness).
C3_SixStates == seenStates \subseteq STATES /\ Cardinality(STATES) = 6

\* Every one of the six states has been the state of a stored conversation.
C3_Witness == seenStates = STATES

Done(k) == ops[k].pc = "done"
Other(k) == 3 - k
\* Both calls read the file before either returned.
Interleaved == \A j, k \in Slots : ops[j].readAt < ops[k].doneAt
\* One call returned before the other was made.
Serial == \E k \in Slots : ops[k].doneAt < ops[Other(k)].startAt
Later == CHOOSE k \in Slots : ops[Other(k)].doneAt < ops[k].doneAt
ChangePresent(k) ==
  LET c == ops[k].call
      items == storeFile.items
  IN IF c.kind = "add" THEN \E i \in DOMAIN items : items[i] = c.data
     ELSE \E i \in DOMAIN items :
            items[i].id = c.id /\ \A f \in DOMAIN c.data : items[i][f] = c.data[f]
BothWrote == \A k \in Slots : Done(k) /\ ops[k].wrote
\* Both calls found the file missing (read() gave both this.defaultData).
BothMissing == \A k \in Slots : ~ops[k].foundFile

\* C4 as stated: of two calls that both read before either wrote, the
\* file holds the change of the later writer and not that of the earlier;
\* of two calls one after the other, it holds both changes.
C4_Original ==
  BothWrote =>
    /\ Interleaved => ChangePresent(Later) /\ ~ChangePresent(Other(Later))
    /\ Serial => \A k \in Slots : ChangePresent(k)

\* C4, amended: the same, unless both calls found the file missing.
C4_LostUpdate ==
  BothWrote =>
    /\ Interleaved /\ ~BothMissing =>
         ChangePresent(Later) /\ ~ChangePresent(Other(Later))
    /\ Serial => \A k \in Slots : ChangePresent(k)

\* Two interleaved calls on an existing file have written, and the change
\* of the earlier is gone.
C4_Witness ==
  BothWrote /\ Interleaved /\ ~BothMissing /\ ~ChangePresent(Other(Later))

\* C5: a getMetrics call returns the cached result without reading the
\* store exactly when a result was computed on its instance less than five
\* minutes before, with no logEvent on the instance since; otherwise it
\* reads the store and computes.
C5_CacheTTL ==
  LET r == metricsLog.last
  IN r.inst # "none" =>
       /\ r.hit <=> r.expected
       /\ r.hit => r.result = r.remembered /\ ~r.reads
       /\ ~r.hit => r.reads
       /\ r.expected <=> (r.age >= 0 /\ r.age < CacheTTL /\ ~r.logged)

\* A call a millisecond short of five minutes after the computation was
\* answered from the cache, events having been logged on the other instance.
C5_Witness ==
  LET r == metricsLog.last
  IN r.hit /\ r.age = CacheTTL - 1 /\ metricsLog.computed["conversation"].logged

AiPaths == {"ai", "ai+templates"}

\* C6: a processMessage call none of whose store operations throws appends
\* exactly one assistant message; with a key set and no handoff keyword, its
\* response is that of generateResponse, which is the rule-based fallback
\* (or the forbidden-topic handoff) when there is no client or the LLM call
\* fails; when a store operation of processWithAI throws, the message is
\* answered through processWithTemplates, which appends one more.
C6_FallbackChain ==
  turn.n > 0 =>
    /\ ~turn.threw => turn.assistant = 1
    /\ turn.path \in AiPaths =>
         /\ turn.source \in {"llm", "fallback", "forbidden"}
         /\ turn.llmFailed => turn.source \in {"fallback", "forbidden"}
    /\ turn.threw => turn.path = "ai+templates" /\ turn.assistant \in {1, 2}
    /\ turn.path = "ai+templates" => turn.threw

\* The LLM call failed and the rule-based fallback answered, with one
\* assistant message.
C6_Witness ==
  /\ turn.path = "ai" /\ turn.llmFailed /\ turn.source = "fallback"
  /\ turn.assistant = 1

\* The property GET /api/properties/:id returned for a tracked id.
Got == resp.data[1]
Tracked(id) == id \in DOMAIN submitted /\ submitted[id].tracked
GotTracked == resp.route = "getById" /\ resp.status = 200 /\ Tracked(resp.id)
Listed(id) == \E i \in DOMAIN resp.data : resp.data[i].id = id

\* C7 as stated: from the create of an id until its update or delete, GET
\* by the id returns the submitted values and the listing holds the id.
C7_Original ==
  /\ resp.route = "getById" /\ Tracked(resp.id) => resp.status = 200
  /\ GotTracked =>
       LET b == submitted[resp.id].body
       IN /\ Got.id = resp.id
          /\ Got.title = b.title
          /\ Got.price = b.price
          /\ b.available.t # "undef" => Got.available = b.available
          /\ b.featured.t # "undef" => Got.featured = b.featured
  /\ resp.route = "getAll" => \A id \in DOMAIN submitted : Tracked(id) => Listed(id)

\* C7, amended: from the create of an id until its update or delete, GET by
\* the id returns the sanitised values (the title trimmed, the price as a
\* number, available and featured as booleans, true and false when absent),
\* available and featured only until a toggle-availability or set-featured
\* of the id, and the unfiltered listing holds the id.
C7_CreatedIsServed ==
  /\ resp.route = "getById" /\ Tracked(resp.id) => resp.status = 200
  /\ GotTracked =>
       LET b == submitted[resp.id].body
       IN /\ Got.id = resp.id
          /\ Got.title = Str(Trim(b.title.s))
          /\ Got.price = ToNumber(b.price)
          /\ ~submitted[resp.id].patched =>
               /\ Got.available =
                    (IF b.available.t = "undef" THEN Bool(TRUE) ELSE ToBoolean(b.available))
               /\ Got.featured = ToBoolean(b.featured)
  /\ resp.route = "getAll" => \A id \in DOMAIN submitted : Tracked(id) => Listed(id)

\* GET by the id of a property created with a padded title returned it.
C7_Witness == GotTracked /\ submitted[resp.id].body = BodyTrim

\* The data of a create that validation rejects: no title but blanks, or a
\* price that is no positive number.
Rejected(b) ==
  \/ b.title.t # "str" \/ Trim(b.title.s) = <<>>
  \/ ToNumber(b.price).t # "num" \/ ToNumber(b.price).n <= 0

\* C8 as stated: a create (of an admin) whose data fails validation, and an
\* update of a stored id to a price that is not positive, are answered 400
\* VALIDATION_ERROR, the store staying as it is.
C8_Original ==
  [][/\ Answers("create") /\ resp'.status \notin {401, 403} /\ Rejected(resp'.body) =>
          /\ resp'.status = 400 /\ resp'.code = "VALIDATION_ERROR"
          /\ propFile' = propFile
     /\ Answers("update") /\ resp'.status \notin {401, 403, 404}
        /\ resp'.body.price.t = "num" /\ resp'.body.price.n <= 0 =>
          /\ resp'.status = 400 /\ resp'.code = "VALIDATION_ERROR"
          /\ ReadProperties(propFile') = ReadProperties(propFile)]_vars

\* C9 as stated: every request by id for an id no stored property has is
\* answered 404 NOT_FOUND, the store staying as it is.
C9_Original ==
  [][resp'.route \in IdRoutes /\ resp' # resp
     /\ resp'.id \notin Ids(ReadProperties(propFile)) =>
       /\ resp'.status = 404 /\ resp'.code = "NOT_FOUND"
       /\ ReadProperties(propFile') = ReadProperties(propFile)]_vars

\* C9, amended: a request by id that passes the admin check (GET by id has
\* none), for an id (parseInt of the path parameter) no stored property has,
\* is answered 404 NOT_FOUND, the store staying as it is; a write request
\* that fails the admin check is answered 401 whatever the id.
C9_NotFound ==
  [][resp'.route \in IdRoutes /\ resp' # resp
     /\ resp'.id \notin Ids(ReadProperties(propFile)) =>
       /\ ReadProperties(propFile') = ReadProperties(propFile)
       /\ IF resp'.route = "getById" \/ loggedIn[resp'.sid]
          THEN resp'.status = 404 /\ resp'.code = "NOT_FOUND"
          ELSE resp'.status = 401]_vars

\* A delete of an id that is not stored was answered 404 to the admin, a
\* created property being in the store.
C9_Witness ==
  /\ resp.route = "delete" /\ resp.status = 404 /\ resp.code = "NOT_FOUND"
  /\ loggedIn[resp.sid] /\ Len(ReadProperties(propFile)) = 2

Absent(x) == x.t = "undef" \/ (x.t = "str" /\ x.s = <<>>)
At(chars) == {i \in DOMAIN chars : chars[i] = "@"}
\* No space, one "@" that is not first, and after it a dot that is neither
\* next to it nor last.
WellFormed(chars) ==
  /\ \A i \in DOMAIN chars : chars[i] # " "
  /\ Cardinality(At(chars)) = 1
  /\ \A i \in At(chars) :
       i > 1 /\ \E k \in DOMAIN chars : chars[k] = "." /\ k > i + 1 /\ k < Len(chars)

\* C10: a submission with name, email or message missing, or with a
\* malformed email, is answered 400 VALIDATION_ERROR and the file stays as
\* it is; any other is answered 201 and the file holds the messages it held
\* and one more, of status 'unread' and with an id none of them has.
C10_ContactForm ==
  [][Answers("submit") \/ (resp'.route = "submit" /\ msgFile' # msgFile) =>
       LET b == resp'.body
           before == ReadMessages(msgFile)
           after == ReadMessages(msgFile')
       IN IF Absent(b.name) \/ Absent(b.email) \/ Absent(b.message)
             \/ ~WellFormed(b.email.s)
          THEN /\ resp'.status = 400 /\ resp'.code = "VALIDATION_ERROR"
               /\ msgFile' = msgFile
          ELSE /\ resp'.status = 201
               /\ Len(after) = Len(before) + 1
               /\ SubSeq(after, 1, Len(before)) = before
               /\ after[Len(after)].status = "unread"
               /\ after[Len(after)].id = resp'.id
               /\ resp'.id \notin Ids(before)]_vars

\* A second message was stored, with status 'unread' and a new id.
C10_Witness ==
  /\ resp.route = "submit" /\ resp.status = 201 /\ resp.id = 2
  /\ Len(msgFile.items) = 2 /\ msgFile.items[2].status = "unread"
  /\ msgFile.items[1].id # msgFile.items[2].id

(***************************************************************************)
(* C11: a submitted application is stored with status 'pending'; a status  *)
(* request of the admin with a status other than pending, approved,        *)
(* rejected or withdrawn is answered 400, one for an unknown id 404, and   *)
(* both leave the stored applications as they were; every stored           *)
(* application has one of the four statuses.                               *)
(***************************************************************************)
FourStatuses == {"pending", "approved", "rejected", "withdrawn"}

Applications == ReadApplications(appFile)

C11_ApplicationStatuses ==
  [][LET before == ReadApplications(appFile)
         after == ReadApplications(appFile')
         admin == RequireAdmin(sessions[resp'.sid]) = 0
     IN /\ Answers("applicationSubmit") /\ resp'.status = 201 =>
             /\ Len(after) = Len(before) + 1
             /\ SubSeq(after, 1, Len(before)) = before
             /\ after[Len(after)].status = "pending"
             /\ after[Len(after)].id = resp'.id
        /\ Answers("applicationSubmit") /\ resp'.status # 201 => after = before
        /\ Answers("applicationStatus") /\ admin =>
             /\ resp'.body.status \notin FourStatuses => resp'.status = 400 /\ after = before
             /\ resp'.body.status \in FourStatuses
                /\ resp'.id \notin Ids(before) => resp'.status = 404 /\ after = before
             /\ resp'.body.status \in FourStatuses /\ resp'.id \in Ids(before) =>
                  /\ resp'.status = 200
                  /\ Len(after) = Len(before)
                  /\ \A i \in 1..Len(before) :
                       after[i] = IF before[i].id = resp'.id
                                  THEN [before[i] EXCEPT !.status = resp'.body.status]
                                  ELSE before[i]
        /\ \A i \in 1..Len(after) : after[i].status \in FourStatuses]_vars

\* The admin was refused 'archived' and then withdrew the second of two
\* stored applications, the first one still pending.
C11_Witness ==
  /\ resp.route = "applicationStatus" /\ resp.status = 200
  /\ resp.body.status = "withdrawn"
  /\ Len(Applications) = 2
  /\ Applications[1].status = "pending"
  /\ Applications[2].status = "withdrawn"

(***************************************************************************)
(* C12: no EmailService method throws: every call resolves, and a call     *)
(* during which something failed (no API key, no owner address, a provider *)
(* error, a failure of the email log) resolves with success false.         *)
(***************************************************************************)
C12_Original ==
  /\ mailResult.settled # "rejected"
  /\ mailResult.failed => mailResult.settled = "resolved" /\ ~mailResult.success

\* What does hold: sendEmail and sendOwnerNotification, which write no
\* email log, always resolve.
C12_ResolvedCalls ==
  mailResult.method \in {"sendEmail", "sendOwnerNotification"} =>
    mailResult.settled = "resolved"

(***************************************************************************)
(* C13: with no LLM key set (every answer comes from the handoff check or  *)
(* the templates), a processMessage call changes the state of the          *)
(* conversation it handles only one step along NEW_LEAD, GREETING,         *)
(* QUALIFICATION, ACTION, CLOSED, or to HANDOFF, and of no other           *)
(* conversation; GREETING is left for QUALIFICATION only by a message      *)
(* holding a budget, QUALIFICATION for ACTION only when the location was   *)
(* collected before and the move-in date is collected now, and ACTION for  *)
(* CLOSED only by a message that starts an application.                    *)
(***************************************************************************)
StateOrder == <<"NEW_LEAD", "GREETING", "QUALIFICATION", "ACTION", "CLOSED">>

AllowedMoves ==
  {<<StateOrder[i], StateOrder[i]>> : i \in 1..5}
  \cup {<<StateOrder[i], StateOrder[i + 1]>> : i \in 1..4}
  \cup {<<StateOrder[i], "HANDOFF">> : i \in 1..4}

\* The texts of the model that hold an amount between 1000 and 100000, and
\* the one that starts an application.
BudgetTexts == {<<"R", "5", "0", "0", "0">>, <<"5", ",", "0", "0", "0">>}
ApplyTexts == {<<"3">>}

ConvById(items, id) == items[CHOOSE i \in DOMAIN items : items[i].id = id]
HasConv(items, id) == \E i \in DOMAIN items : items[i].id = id
LeadById(items, id) == items[CHOOSE i \in DOMAIN items : items[i].id = id]

C13_TemplateOrder ==
  [][turn' # turn /\ ~llmApiKey =>
       LET id == turn'.conv
           after == ConvById(convs', id)
           before == IF HasConv(convs, id) THEN ConvById(convs, id)
                     ELSE NewConversation(id, after.leadId)
           lead == LeadById(leads', after.leadId)
           body == received'.body
       IN /\ \A i \in DOMAIN convs : convs[i].id # id => convs'[i] = convs[i]
          /\ <<before.state, after.state>> \in AllowedMoves
          /\ before.state = "GREETING" /\ after.state = "QUALIFICATION" =>
               /\ body \in BudgetTexts
               /\ lead.budget /\ after.collected.budget
               /\ after.currentField = "location"
          /\ before.state = "QUALIFICATION" /\ after.state = "ACTION" =>
               /\ before.collected.location /\ before.currentField = "moveInDate"
               /\ lead.location /\ lead.moveInDate
               /\ after.collected.moveInDate
          /\ before.state = "ACTION" /\ after.state = "CLOSED" => body \in ApplyTexts]_vars

\* The templates have taken a conversation through every state to CLOSED.
C13_Witness ==
  /\ ~llmApiKey
  /\ turn.path = "templates"
  /\ received.body = <<"3">>
  /\ HasConv(convs, turn.conv)
  /\ ConvById(convs, turn.conv).state = "CLOSED"
  /\ ConvById(convs, turn.conv).collected = [budget |-> TRUE, location |-> TRUE, moveInDate |-> TRUE]

(***************************************************************************)
(* C14: a message that contains a handoff trigger word leaves the          *)
(* conversation it is handled in, whatever state that was in, in HANDOFF   *)
(* with reason 'user_requested'; neither the AI nor the templates run (no  *)
(* AI result, one assistant message, the context of the conversation as it *)
(* was), and the qualification data of every lead is as before.            *)
(***************************************************************************)
\* The text of the model that contains a trigger word.
TriggerTexts == {<<"h", "u", "m", "a", "n">>}

Qualification(lead) ==
  [budget |-> lead.budget, location |-> lead.location, moveInDate |-> lead.moveInDate,
   completed |-> lead.completed, status |-> lead.status]

C14_HandoffTrigger ==
  [][turn' # turn /\ received'.body \in TriggerTexts =>
       LET id == turn'.conv
           after == ConvById(convs', id)
           before == IF HasConv(convs, id) THEN ConvById(convs, id)
                     ELSE NewConversation(id, after.leadId)
       IN /\ after.state = "HANDOFF"
          /\ turn'.handoffReason = "user_requested"
          /\ turn'.path = "handoff" /\ turn'.source = "none"
          /\ turn'.assistant = 1
          /\ after = [before EXCEPT !.state = "HANDOFF", !.user = @ + 1, !.assistant = @ + 1]
          /\ \A i \in DOMAIN convs : convs[i].id # id => convs'[i] = convs[i]
          /\ \A i \in DOMAIN leads : leads'[i] = leads[i]
          /\ \A i \in DOMAIN leads' \ DOMAIN leads :
               Qualification(leads'[i]) = Qualification(NewLead(0, "none"))]_vars

\* With the LLM key set, a conversation that had collected budget and
\* location was handed off by 'human'.
C14_Witness ==
  /\ llmApiKey
  /\ received.body \in TriggerTexts
  /\ HasConv(convs, turn.conv)
  /\ ConvById(convs, turn.conv).state = "HANDOFF"
  /\ turn.handoffReason = "user_requested"
  /\ ConvById(convs, turn.conv).collected.location
  /\ LeadById(leads, ConvById(convs, turn.conv).leadId).budget

(***************************************************************************)
(* C15: a processMessage call leaves every conversation that was in        *)
(* HANDOFF or CLOSED before it exactly as it was; when the lead of the     *)
(* message has conversations and all of them are in HANDOFF or CLOSED, the *)
(* call handles the message in a conversation it creates for that lead,    *)
(* which holds that one user message and, on the template path, ends in    *)
(* GREETING with nothing collected, as a conversation begun in NEW_LEAD    *)
(* does.                                                                   *)
(***************************************************************************)
Terminal(c) == c.state \in {"HANDOFF", "CLOSED"}

C15_Terminal ==
  [][turn' # turn =>
       /\ \A i \in DOMAIN convs : Terminal(convs[i]) => convs'[i] = convs[i]
       /\ \A l \in DOMAIN leads :
            /\ leads[l].phone = received'.from
            /\ \E i \in DOMAIN convs : convs[i].leadId = leads[l].id
            /\ \A i \in DOMAIN convs : convs[i].leadId = leads[l].id => Terminal(convs[i])
            => /\ Len(convs') = Len(convs) + 1
               /\ ~HasConv(convs, turn'.conv)
               /\ convs'[Len(convs')].id = turn'.conv
               /\ convs'[Len(convs')].leadId = leads[l].id
               /\ convs'[Len(convs')].user = 1
               /\ turn'.path = "templates" =>
                    convs'[Len(convs')] =
                      [NewConversation(turn'.conv, leads[l].id) EXCEPT
                         !.state = "GREETING", !.user = 1, !.assistant = 1]
               /\ turn'.path = "handoff" => convs'[Len(convs')].state = "HANDOFF"]_vars

\* A lead's first conversation was handed off; two later messages were
\* handled in a second conversation, now in QUALIFICATION.
C15_Witness ==
  /\ Len(convs) = 2
  /\ convs[1].state = "HANDOFF" /\ convs[1].user = 2
  /\ convs[2].leadId = convs[1].leadId
  /\ convs[2].state = "QUALIFICATION" /\ convs[2].user = 2
  /\ turn.conv = convs[2].id

(***************************************************************************)
(* C16: whenever a conversation is in ACTION, its lead has budget,         *)
(* location and move-in date recorded, and its qualification is marked     *)
(* completed with status 'qualified'.                                      *)
(***************************************************************************)
Qualified(lead) ==
  /\ lead.budget /\ lead.location /\ lead.moveInDate
  /\ lead.completed /\ lead.status = "qualified"

C16_Original ==
  \A i \in DOMAIN convs :
    convs[i].state = "ACTION" => Qualified(LeadById(leads, convs[i].leadId))

\* The same for a deployment without an LLM key, where it does hold.
C16_TemplatesOnly == ~llmApiKey => C16_Original

(***************************************************************************)
(* C17: a processMessage call that handles the first message of a new      *)
(* conversation and does not hand it off leaves the conversation in a      *)
(* state other than NEW_LEAD.                                              *)
(***************************************************************************)
C17_Original ==
  [][turn' # turn /\ ~HasConv(convs, turn'.conv)
     /\ ConvById(convs', turn'.conv).state # "HANDOFF"
     => ConvById(convs', turn'.conv).state # "NEW_LEAD"]_vars

\* The same for a deployment without an LLM key, where the conversation
\* does move on to GREETING.
C17_TemplatesOnly ==
  [][turn' # turn /\ ~HasConv(convs, turn'.conv) /\ ~llmApiKey
     /\ ConvById(convs', turn'.conv).state # "HANDOFF"
     => ConvById(convs', turn'.conv).state = "GREETING"]_vars

(***************************************************************************)
(* C18: in every reachable state, also while two processMessage calls for  *)
(* one phone number are in flight, no two leads have the same phone number *)
(* and no lead has two conversations that are neither HANDOFF nor CLOSED.  *)
(***************************************************************************)
OneLeadPerPhone ==
  \A i, j \in DOMAIN leads : leads[i].phone = leads[j].phone => i = j

OneActivePerLead ==
  \A i, j \in DOMAIN convs :
    /\ convs[i].leadId = convs[j].leadId
    /\ ~Terminal(convs[i]) /\ ~Terminal(convs[j])
    => i = j

C18_Original == OneLeadPerPhone /\ OneActivePerLead

(***************************************************************************)
(* C19: the failure counter of an address counts its logins answered 401   *)
(* since its last successful login, within the fifteen minutes that began  *)
(* with the first of them.  While it stands at five or more and these      *)
(* fifteen minutes have not passed, every login from the address is        *)
(* answered 429, no password comparison begins and no session becomes      *)
(* authenticated, whatever the credentials; a login answered 200 clears    *)
(* the counter.                                                            *)
(***************************************************************************)
Counter(ip) == IF loginAttempts[ip] = 0 THEN 0 ELSE attemptObjs[loginAttempts[ip]].count
WindowStart(ip) ==
  IF loginAttempts[ip] = 0 THEN now ELSE attemptObjs[loginAttempts[ip]].firstAttempt
FiveFailures(ip) == Counter(ip) >= 5 /\ now - WindowStart(ip) < 15 * 60 * 1000

\* The password comparison of a login returns in this step.
Compared == \E k \in LoginSlots : logins[k] # IdleLogin /\ logins'[k] = IdleLogin
ComparedLogin == logins[CHOOSE k \in LoginSlots : logins[k] # IdleLogin /\ logins'[k] = IdleLogin]

\* C19 as stated, "within 15 minutes" read by the clock: when the address's
\* last five rejections, with no successful login since, all lie within the
\* last fifteen minutes, a login from it is answered 429 and no password
\* comparison begins.
C19_Original ==
  [][Len(rejections) >= 5 /\ now - rejections[Len(rejections) - 4] < 15 * 60 * 1000 =>
       /\ logins' = logins
       /\ resp' # resp /\ resp'.route = "login" => resp'.status = 429]_vars

C19_RateLimit ==
  [][\A ip \in Ips :
       /\ FiveFailures(ip) =>
            /\ logins' = logins
            /\ resp' # resp /\ resp'.route = "login" /\ resp'.login.ip = ip =>
                 resp'.status = 429
            /\ \A sid \in SessionIds :
                 IsAuthenticated(sessions'[sid]) => IsAuthenticated(sessions[sid])
            /\ Counter(ip)' = Counter(ip)
       /\ Compared /\ ComparedLogin.ip = ip =>
            IF Valid(ComparedLogin)
            THEN resp'.status = 200 /\ Counter(ip)' = 0 /\ loginAttempts'[ip] = 0
            ELSE resp'.status = 401 /\ Counter(ip)' = Counter(ip) + 1
       /\ ~Compared \/ ComparedLogin.ip # ip =>
            \/ Counter(ip)' = Counter(ip)
            \/ Counter(ip)' = 0 /\ now - WindowStart(ip) > 15 * 60 * 1000]_vars

\* Later in the window of five failures, a login with the valid credentials
\* is answered 429.
C19_Witness ==
  /\ resp.route = "login" /\ resp.status = 429 /\ Valid(resp.login)
  /\ Counter(resp.login.ip) = 5
  /\ now > WindowStart(resp.login.ip)
  /\ Len(rejections) = 5
  /\ \A sid \in SessionIds : ~loggedIn[sid]

(***************************************************************************)
(* C20: no six logins of one address have their password compared and are  *)
(* answered 401 within fifteen minutes, also when several of its logins    *)
(* await the password comparison at the same time.                         *)
(***************************************************************************)
C20_Original ==
  \A i \in DOMAIN rejections :
    i + 5 \in DOMAIN rejections => rejections[i + 5] - rejections[i] >= 15 * 60 * 1000

(***************************************************************************)
(* C21: when an address has failed attempts counted and more than fifteen  *)
(* minutes have passed since the first of them, the next login request     *)
(* from it is not answered 429, its counter is back at zero and its window *)
(* starts at this request, and with the correct credentials the password   *)
(* comparison begins and, on its return, answers 200 and authenticates the *)
(* session; a request answered 429 leaves the counter and the start of the *)
(* window as they were.                                                    *)
(***************************************************************************)
\* The time of the first of the failures the counter counts.
FirstCounted(ip) == rejections[Len(rejections) - Counter(ip) + 1]

BlockOver(ip) ==
  /\ Counter(ip) >= 1 /\ Counter(ip) <= Len(rejections)
  /\ now - FirstCounted(ip) > 15 * 60 * 1000

C21_BlockEnds ==
  [][/\ attempt' # attempt /\ BlockOver("ip1") =>
          /\ attempt'.status # 429
          /\ Counter("ip1")' = 0
          /\ WindowStart("ip1")' = now
          /\ attempt'.username = "admin" /\ attempt'.password = "password123" =>
               /\ attempt'.status = 0
               /\ \E k \in LoginSlots :
                    /\ logins'[k].username = "admin"
                    /\ logins'[k].password = "password123"
     /\ Compared /\ ComparedLogin.username = "admin"
        /\ ComparedLogin.password = "password123" =>
          /\ resp'.status = 200
          /\ IsAuthenticated(sessions'[ComparedLogin.sid])
          /\ \A ip \in Ips : ip = ComparedLogin.ip => Counter(ip)' = 0
     /\ attempt' # attempt /\ attempt'.status = 429 =>
          /\ Counter("ip1")' = Counter("ip1")
          /\ WindowStart("ip1")' = WindowStart("ip1")
          /\ attemptObjs' = attemptObjs /\ loginAttempts' = loginAttempts]_vars

\* Five failures blocked the address; more than fifteen minutes after the
\* first of them a login with the correct credentials was let through to
\* the password comparison, the counter at zero.
C21_Witness ==
  /\ Len(rejections) = 5
  /\ now - rejections[1] > 15 * 60 * 1000
  /\ attempt.at = now /\ attempt.status = 0 /\ attempt.password = "password123"
  /\ \E k \in LoginSlots : logins[k].password = "password123"
  /\ Counter("ip1") = 0
  /\ WindowStart("ip1") = now

====
